---------------------------- MODULE Spec2Model ----------------------------
(***************************************************************************)
(* Model of two INDI telescope drivers:                                    *)
(*   - the Explore Scientific PMC8 low-level driver (pmc8driver.cpp): the  *)
(*     24-bit hex codec and the RA/Dec <-> motor-count conversions;        *)
(*   - the Astro-Physics driver (lx200ap.cpp): the mount state machine.    *)
(*                                                                         *)
(* Angles are exact integers.  An hour of RA / LST / hour angle is         *)
(* HourUnits units and a degree of declination is DegUnits units, both     *)
(* chosen so that one motor count is exactly Sub units.  The C conversion  *)
(* double -> int is truncation toward zero (TruncDiv).                     *)
(***************************************************************************)
EXTENDS Integers, Sequences, FiniteSets, TLC

VARIABLES
    pc,         \* position of the pure-function pipelines
    val,        \* convert_motor_counts_to_hex: the motor count to encode
    hex,        \* the 6 hex characters written into the frame
    axispos,    \* get_pmc8_position_axis: the integer parsed from the reply
    motor,      \* convert_axispos_to_motor: the decoded motor count
    ra,         \* target RA, in hour units
    dec,        \* target Dec, in degree units
    lst,        \* get_local_sidereal_time(pmc8_longitude), in hour units
    sop,        \* side of pier handed to convert_ra/dec_to_motor
    destsop,    \* result of destSideOfPier
    racounts,   \* RA motor counts
    deccounts,  \* Dec motor counts
    ra_value,   \* convert_motor_to_radec: RA out, hour units
    dec_value,  \* convert_motor_to_radec: Dec out, degree units
    \* ---- LX200AstroPhysics ----
    connected,        \* isConnected()
    TrackState,       \* INDI::Telescope::TrackState
    EqNP_s,           \* EqNP.s, the state of the coordinate property
    timeUpdated,
    locationUpdated,
    mountInitialized,
    mountParked,
    motionCommanded,
    firmwareVersion,
    trackMode,        \* IUFindOnSwitchIndex(&TrackModeSP)
    lastRA, lastDE,
    lastAZ, lastAL,
    wire,             \* the frames the last operation wrote, in order
    lastOp,           \* the last operation called
    rc,               \* what it returned
    prevState,        \* history: TrackState when the last operation was called
    polls,            \* history: ReadScopeStatus polls taken in SLEWING since the last Goto
    locThisSession,   \* history: updateLocation succeeded since the last Connect
    motionSince,      \* history: a motion command since the last guide-rate frame
    \* ---- single calls checked on their own ----
    initRA, initDEC,  \* IsMountInitialized: the ra, dec the mount replied
    guideSpeed,       \* IUFindOnSwitchIndex(&APGuideSpeedSP)
    failing,          \* Handshake: the exchanges that fail
    versionString,    \* getFirmwareVersion: the reply to the firmware query
    jog,              \* start_pmc8_motion: dir, mode and the rates the mount reports
    args,             \* the arguments and inputs of a function called on its own
    ret               \* what that function hands back through its out-parameters

hexVars   == <<val, hex, axispos, motor>>
coordVars == <<ra, dec, lst, sop, destsop, racounts, deccounts, ra_value, dec_value>>
apVars    == <<connected, TrackState, EqNP_s, timeUpdated, locationUpdated,
               mountInitialized, mountParked, motionCommanded, firmwareVersion,
               trackMode, lastRA, lastDE, lastAZ, lastAL,
               wire, lastOp, rc, prevState, polls, locThisSession, motionSince>>
auxVars   == <<initRA, initDEC, guideSpeed, failing, versionString, jog, args, ret>>
vars      == <<pc, hexVars, coordVars, apVars, auxVars>>

-----------------------------------------------------------------------------
(* Bounds of the model *)

\* motor counts are sampled within HexNbhd of -2^23, 0 and 2^23-1
HexNbhd == 8
\* one motor count is Sub angle units
Sub == 4
\* angles are sampled within CoordNbhd units of the base angles
CoordNbhd == 3
\* the AP mount reports MaxCoord + 1 different values per coordinate
MaxPolls == 2
\* the units of the Astro-Physics driver's angles in one degree or hour
AngleScale == 1000000
\* the units of the PMC8 rates in one arcsec/s
RateUnits == 1000
\* the units of the AP tracking rates in one arcsec/s or one sidereal rate
TrackRateUnits == 10000
\* the units of a site longitude in one arc-second
ArcsecUnits == 4
\* the PMC8 codec writes at most MaxCommands commands
MaxCommands == 5
\* the mount changes the position it reports at most MaxMoves times
MaxMoves == 2

-----------------------------------------------------------------------------
(* Program constants *)

PMC8_AXIS0_SCALE == 4608000
PMC8_AXIS1_SCALE == 4608000
ARCSEC_IN_CIRCLE == 1296000

\* if tracking speed above this then mount is slewing
PMC8_MINSLEWRATE == 55

\* max settable move rate, 256x sidereal
PMC8_MAX_MOVE_MOTOR_RATE == 3840

\* max precise (tracking) motor rate, from the PMC8 SDK document
PMC8_MAX_PRECISE_MOTOR_RATE == 2641

RECURSIVE GCD(_, _)
GCD(a, b) == IF b = 0 THEN a ELSE GCD(b, a % b)

\* PMC8_AXIS0_SCALE / ARCSEC_IN_CIRCLE as a fraction in lowest terms
ScaleNum == PMC8_AXIS0_SCALE \div GCD(PMC8_AXIS0_SCALE, ARCSEC_IN_CIRCLE)
ScaleDen == ARCSEC_IN_CIRCLE \div GCD(PMC8_AXIS0_SCALE, ARCSEC_IN_CIRCLE)

PIER_UNKNOWN == "PIER_UNKNOWN"
PIER_WEST    == "PIER_WEST"
PIER_EAST    == "PIER_EAST"

\* one hour in angle units: (PMC8_AXIS0_SCALE / 24) counts of Sub units
HourUnits == (PMC8_AXIS0_SCALE \div 24) * Sub
\* one degree in angle units: (PMC8_AXIS1_SCALE / 360) counts of Sub units
DegUnits  == (PMC8_AXIS1_SCALE \div 360) * Sub

\* C conversion of a double quotient a/b (b > 0) to int: toward zero
TruncDiv(a, b) == IF a >= 0 THEN a \div b ELSE -((-a) \div b)

Abs(x) == IF x < 0 THEN -x ELSE x

-----------------------------------------------------------------------------
(* 24-bit two's-complement hex codec (pmc8driver.cpp) *)

HexChars == <<"0", "1", "2", "3", "4", "5", "6", "7",
              "8", "9", "A", "B", "C", "D", "E", "F">>

\* the C string held in a sequence of characters
RECURSIVE CString(_)
CString(s) == IF s = <<>> THEN "" ELSE s[1] \o CString(Tail(s))

RECURSIVE Pow16(_)
Pow16(n) == IF n = 0 THEN 1 ELSE 16 * Pow16(n - 1)

\* a 32-bit unsigned as 8 nibbles, most significant first (0 <= n < 2^31)
ToUnsigned(n) == [i \in 1..8 |-> (n \div Pow16(8 - i)) % 16]

\* tmp = ~tmp
Complement(u) == [i \in 1..8 |-> 15 - u[i]]

\* tmp++ (modulo 2^32)
RECURSIVE IncFrom(_, _)
IncFrom(u, i) ==
    IF i = 0 THEN u
    ELSE IF u[i] = 15 THEN IncFrom([u EXCEPT ![i] = 0], i - 1)
    ELSE [u EXCEPT ![i] = u[i] + 1]

Increment(u) == IncFrom(u, 8)

\* sprintf(h, "%08X", tmp)
Sprintf08X(u) == [i \in 1..8 |-> HexChars[u[i] + 1]]

\* sprintf "%04X" of an int: the unsigned 32-bit value in at least 4 digits
Sprintf04X(n) ==
    LET u     == IF n < 0 THEN Increment(Complement(ToUnsigned(Abs(n)))) ELSE ToUnsigned(n)
        first == IF \E i \in 1..4 : u[i] # 0
                 THEN CHOOSE i \in 1..4 : u[i] # 0 /\ \A j \in 1..(i - 1) : u[j] = 0
                 ELSE 5
    IN  [i \in 1..(9 - first) |-> HexChars[u[first + i - 1] + 1]]

\* convert mount count to 6 character two complement hex string
convert_motor_counts_to_hex(v) ==
    LET tmp == IF v < 0
               THEN Increment(Complement(ToUnsigned(Abs(v))))
               ELSE ToUnsigned(v)
        h   == Sprintf08X(tmp)
    IN  SubSeq(h, 3, 8)         \* strcpy(hex, h+2)

HexDigit(c) == CHOOSE d \in 0..15 : HexChars[d + 1] = c

\* strtol("0X" + six hex characters, NULL, 0)
RECURSIVE Strtol(_)
Strtol(s) ==
    IF s = <<>> THEN 0
    ELSE 16 * Strtol(SubSeq(s, 1, Len(s) - 1)) + HexDigit(s[Len(s)])

\* convert from axis position returned by controller to motor counts
convert_axispos_to_motor(a) ==
    IF a > 8388608 THEN 0 - (16777216 - a) ELSE a

MotorCountSamples ==
    ((0 - 8388608) .. (HexNbhd - 8388608))
        \cup ((0 - HexNbhd) .. HexNbhd)
        \cup ((8388607 - HexNbhd) .. 8388607)

-----------------------------------------------------------------------------
(* Coordinate conversions (pmc8driver.cpp) *)

\* limit values to +/- 12 hours
LimitHourAngle(ha) ==
    IF ha > 12 * HourUnits THEN ha - 24 * HourUnits
    ELSE IF ha <= 0 - 12 * HourUnits THEN ha + 24 * HourUnits
    ELSE ha

\* the lower limit compared with < instead of <=
destSideOfPier_OpenLimit(r, l) ==
    LET ha0        == l - r
        hour_angle == IF ha0 > 12 * HourUnits THEN ha0 - 24 * HourUnits
                      ELSE IF ha0 < 0 - 12 * HourUnits THEN ha0 + 24 * HourUnits
                      ELSE ha0
    IN  IF hour_angle < 0 THEN PIER_WEST ELSE PIER_EAST

destSideOfPier(r, l) ==
    LET hour_angle == LimitHourAngle(l - r)
    IN  IF hour_angle < 0 THEN PIER_WEST ELSE PIER_EAST

\* motor angle of the RA axis, in hour units
ra_motor_angle(r, s, l) ==
    LET hour_angle == LimitHourAngle(l - r)
    IN  IF s = PIER_EAST THEN hour_angle - 6 * HourUnits
        ELSE hour_angle + 6 * HourUnits

\* *mcounts = motor_angle * PMC8_AXIS0_SCALE / 24
convert_ra_to_motor(r, s, l) == TruncDiv(ra_motor_angle(r, s, l), Sub)

\* motor angle of the Dec axis, in degree units
dec_motor_angle(d, s) ==
    IF s = PIER_EAST THEN d - 90 * DegUnits ELSE 0 - (d - 90 * DegUnits)

\* *mcounts = (motor_angle / 360.0) * PMC8_AXIS1_SCALE
convert_dec_to_motor(d, s) == TruncDiv(dec_motor_angle(d, s), Sub)

\* both conversions return false for any other side of pier
convert_to_motor_rc(s) == s \in {PIER_EAST, PIER_WEST}

convert_motor_to_radec(rac, decc, l) ==
    LET motor_angle_ra  == rac * Sub
        hour_angle      == IF decc < 0 THEN motor_angle_ra + 6 * HourUnits
                           ELSE motor_angle_ra - 6 * HourUnits
        r0              == l - hour_angle
        r1              == IF r0 >= 24 * HourUnits THEN r0 - 24 * HourUnits
                           ELSE IF r0 < 0 THEN r0 + 24 * HourUnits
                           ELSE r0
        motor_angle_dec == decc * Sub
        d1              == IF motor_angle_dec >= 0 THEN 90 * DegUnits - motor_angle_dec
                           ELSE 90 * DegUnits + motor_angle_dec
    IN  [ra_value |-> r1, dec_value |-> d1]

Offsets == (0 - CoordNbhd) .. CoordNbhd

RASamples ==
    {h * HourUnits + o : h \in {0, 4, 6, 12, 18, 24}, o \in Offsets}
        \cap (0 .. (24 * HourUnits - 1))

LSTSamples ==
    {h * HourUnits + o : h \in {0, 6, 10, 18}, o \in Offsets}
        \cap (0 .. (24 * HourUnits - 1))

DecSamples ==
    {d * DegUnits + o : d \in {0 - 90, 0 - 45, 0, 45, 90}, o \in Offsets}
        \cap ((0 - 90 * DegUnits) .. (90 * DegUnits))

-----------------------------------------------------------------------------
(* Astro-Physics driver (lx200ap.cpp)                                      *)
(*                                                                         *)
(* The driver is modelled out of simulation (isSimulation() = false).      *)
(* wire holds the frames an operation writes, named as in the command      *)
(* table: getLX200RA ":GR#", getLX200DEC ":GD#", getLX200Az ":GZ#",        *)
(* getLX200Alt ":GA#", setAPObjectRA ":Sr", setAPObjectDEC ":Sd",          *)
(* setAPObjectAZ ":Sz", setAPObjectAlt ":Sa", Slew ":MS#", abortSlew       *)
(* ":Q#", Sync ":CM#", APSyncCMR ":CMR#", setAPPark ":KA#", setAPUnPark    *)
(* ":PO#", selectAPTrackingMode ":RTn#", setAPRATrackRate ":RR",           *)
(* setAPDETrackRate ":RD", selectAPMoveToRate ":RC", selectAPSlewRate      *)
(* ":RS", check_lx200ap_status ":GOS#", setLocalTime ":SL",                *)
(* setCalenderDate ":SC", setAPUTCOffset ":SG", setAPSiteLongitude ":Sg",  *)
(* setAPSiteLatitude ":St", syncSideOfPier ":pS#".                         *)
(* An exchange may fail wherever the code tests its result.                *)

SCOPE_IDLE     == "SCOPE_IDLE"
SCOPE_SLEWING  == "SCOPE_SLEWING"
SCOPE_TRACKING == "SCOPE_TRACKING"
SCOPE_PARKING  == "SCOPE_PARKING"
SCOPE_PARKED   == "SCOPE_PARKED"

IPS_IDLE  == "IPS_IDLE"
IPS_OK    == "IPS_OK"
IPS_BUSY  == "IPS_BUSY"
IPS_ALERT == "IPS_ALERT"

TRACK_SIDEREAL  == "TRACK_SIDEREAL"
TRACK_SOLAR     == "TRACK_SOLAR"
TRACK_LUNAR     == "TRACK_LUNAR"
TRACK_CUSTOM    == "TRACK_CUSTOM"
AP_TRACKING_OFF == "AP_TRACKING_OFF"

\* the track modes the model starts with: one preset and the custom one
TrackModes == {TRACK_SIDEREAL, TRACK_CUSTOM}

\* ControllerVersion
MCV_E       == 0
MCV_G       == 2
MCV_T       == 15
MCV_V       == 17
MCV_UNKNOWN == 18

\* the controllers the handshake detects in the model: one without and one
\* with the park-status query
FirmwareSamples == {MCV_E, MCV_T}

\* the positions the mount reports and the targets the client asks for
Coords == {0, 90 * AngleScale}

\* the failing exchange itself is not written
Sent_Dropped(plan, f) == IF f = 0 THEN plan ELSE SubSeq(plan, 1, f - 1)

\* the frames of plan written when its f-th exchange fails (0: none fails)
Sent(plan, f) == IF f = 0 THEN plan ELSE SubSeq(plan, 1, f)

\* INDI::Telescope::SetParked
SetParked(isparked) == IF isparked THEN SCOPE_PARKED ELSE SCOPE_TRACKING

\* INDI::Telescope::NewRaDec: the coordinate property follows the state
NewRaDec(ts, eq) ==
    CASE ts \in {SCOPE_PARKED, SCOPE_IDLE} -> IPS_IDLE
      [] ts = SCOPE_SLEWING                -> IPS_BUSY
      [] ts = SCOPE_TRACKING               -> IPS_OK
      [] OTHER                             -> eq

\* selectAPTrackingMode(PortFD, mode)
TrackingModeFrame(mode) ==
    CASE mode = TRACK_SIDEREAL -> ":RT0#"
      [] mode = TRACK_LUNAR    -> ":RT1#"
      [] mode = TRACK_SOLAR    -> ":RT2#"
      [] OTHER                 -> ":RT9#"

\* the exchanges of SetTrackMode(mode), SetTrackRate included
SetTrackModePlan(mode) ==
    IF mode = TRACK_CUSTOM
    THEN <<TrackingModeFrame(TRACK_SIDEREAL), ":RR", ":RD">>
    ELSE <<TrackingModeFrame(mode)>>

\* SetTrackMode(mode) when its f-th exchange fails
SetTrackMode(mode, f) ==
    [wire |-> Sent(SetTrackModePlan(mode), f), rc |-> f = 0]

SetTrackEnabled(enabled, f) ==
    SetTrackMode(IF enabled THEN trackMode ELSE AP_TRACKING_OFF, f)

\* Park with the slew started before the target is set
ParkPlan_SlewFirst == <<":MS#", ":Sz", ":Sa">>

\* the exchanges of Park(): setAPObjectAZ, setAPObjectAlt, Slew
ParkPlan == <<":Sz", ":Sa", ":MS#">>

\* UnPark with :PO# sent first
UnParkFrames_WithPO(f) == <<":PO#">> \o SetTrackEnabled(TRUE, f).wire

\* the frames UnPark writes: those of SetTrackEnabled(true)
UnParkFrames(f) == SetTrackEnabled(TRUE, f).wire

\* dx == 0 || dy == 0
PositionSettled_Either(lastA, lastB, curA, curB) == lastA = curA \/ lastB = curB

\* dx == 0 && dy == 0
PositionSettled(lastA, lastB, curA, curB) == lastA = curA /\ lastB = curB

\* double epscheck = 1e-5
epscheck == AngleScale \div 100000

\* IsMountInitialized with the pole left out of the test
IsMountInitialized_NoPole(r, d) == ~(Abs(r) < epscheck /\ Abs(d) < epscheck)

\* IsMountInitialized: RA is zero and DEC is zero or 90 => not initialized
IsMountInitialized(r, d) ==
    LET raZE == Abs(r) < epscheck
        deZE == Abs(d) < epscheck
        de90 == Abs(d - 90 * AngleScale) < epscheck
    IN  ~((raZE /\ deZE) \/ (raZE /\ de90))

\* getMountStatus: the park-status query exists on firmware T and later
getMountStatusSupported ==
    firmwareVersion # MCV_UNKNOWN /\ firmwareVersion >= MCV_T

\* initMount, from the rate selections on
InitRates(acc) ==
    { [acc EXCEPT !.wire = @ \o <<":RC">>, !.rc = FALSE],
      [acc EXCEPT !.wire = @ \o <<":RC", ":RS">>, !.rc = FALSE],
      [acc EXCEPT !.wire = @ \o <<":RC", ":RS">>] }

\* initMount: mountInitialized = true; UnPark()
InitUnPark(acc) ==
    UNION { InitRates([acc EXCEPT !.mi = TRUE,
                                  !.wire = @ \o UnParkFrames(f),
                                  !.ts = SetParked(FALSE)])
            : f \in 0..Len(SetTrackModePlan(trackMode)) }

\* initMount: :PO# and :Q# when the mount is not initialized
InitPO(acc) ==
    IF ~acc.mi
    THEN {[acc EXCEPT !.wire = @ \o <<":PO#">>, !.rc = FALSE]}
            \cup InitUnPark([acc EXCEPT !.wire = @ \o <<":PO#", ":Q#">>])
    ELSE InitUnPark(acc)

\* IsMountParked, fallback for older controllers: RA sampled twice
InitParkedFallback(acc) ==
    { [acc EXCEPT !.wire = @ \o <<":GR#">>, !.rc = FALSE],
      [acc EXCEPT !.wire = @ \o <<":GR#", ":GR#">>, !.rc = FALSE] }
        \cup InitPO([acc EXCEPT !.wire = @ \o <<":GR#", ":GR#">>, !.mp = FALSE])

\* IsMountParked
InitParked(acc) ==
    IF getMountStatusSupported
    THEN UNION { InitPO([acc EXCEPT !.wire = @ \o <<":GOS#">>, !.mp = p])
                 : p \in BOOLEAN }
            \cup InitParkedFallback([acc EXCEPT !.wire = @ \o <<":GOS#">>])
    ELSE InitParkedFallback(acc)

\* the outcomes of initMount() called with the members as in acc, when the
\* mount replies r and d to IsMountInitialized
initMountReading(acc, r, d) ==
    { [acc EXCEPT !.wire = @ \o <<":GR#">>, !.rc = FALSE],
      [acc EXCEPT !.wire = @ \o <<":GR#", ":GD#">>, !.rc = FALSE] }
        \cup InitParked([acc EXCEPT !.wire = @ \o <<":GR#", ":GD#">>,
                                    !.mi = IsMountInitialized(r, d)])

\* the outcomes of initMount() called with the members as in acc
initMount(acc) ==
    UNION { initMountReading(acc, r, d) : r \in Coords, d \in Coords }

\* the gate without the test of mountInitialized
InitGate_EveryUpdate(loc, time, mi) == loc /\ time

\* if (locationUpdated && timeUpdated && mountInitialized == false)
InitGate(loc, time, mi) == loc /\ time /\ ~mi

-----------------------------------------------------------------------------
(* Initial values of the variables a specification does not use *)

HexIdle ==
    /\ val = 0 /\ hex = <<>> /\ axispos = 0 /\ motor = 0

CoordIdle ==
    /\ ra = 0 /\ dec = 0 /\ lst = 0 /\ sop = PIER_UNKNOWN
    /\ destsop = PIER_UNKNOWN
    /\ racounts = 0 /\ deccounts = 0 /\ ra_value = 0 /\ dec_value = 0

AuxIdle ==
    /\ initRA = 0 /\ initDEC = 0
    /\ guideSpeed = 0
    /\ failing = {} /\ versionString = <<>>
    /\ jog = <<>>
    /\ args = <<>> /\ ret = <<>>

APInitial ==
    /\ connected = FALSE
    /\ TrackState = SCOPE_IDLE
    /\ EqNP_s = IPS_IDLE
    /\ timeUpdated = FALSE /\ locationUpdated = FALSE
    /\ mountInitialized = FALSE /\ mountParked = FALSE
    /\ motionCommanded = FALSE
    /\ firmwareVersion = MCV_UNKNOWN
    /\ lastRA = 0 /\ lastDE = 0 /\ lastAZ = 0 /\ lastAL = 0
    /\ wire = <<>> /\ lastOp = "none" /\ rc = TRUE
    /\ prevState = SCOPE_IDLE /\ polls = 0 /\ locThisSession = FALSE
    /\ motionSince = FALSE

APIdle ==
    /\ APInitial
    /\ AuxIdle
    /\ trackMode = TRACK_SIDEREAL

-----------------------------------------------------------------------------
(* SpecHex: a motor count goes out in an ESPt frame and comes back in an   *)
(* ESGp reply.                                                             *)

InitHex ==
    /\ pc = "input"
    /\ val \in MotorCountSamples
    /\ hex = <<>> /\ axispos = 0 /\ motor = 0
    /\ CoordIdle
    /\ APIdle

\* set_pmc8_target_position_axis: convert_motor_counts_to_hex(point, hexpt)
SetTargetPositionAxis ==
    /\ pc = "input"
    /\ hex' = convert_motor_counts_to_hex(val)
    /\ pc' = "encoded"
    /\ UNCHANGED <<val, axispos, motor, coordVars, apVars, auxVars>>

\* get_pmc8_position_axis: the six digits of the reply through strtol
GetPositionAxis ==
    /\ pc = "encoded"
    /\ axispos' = Strtol(hex)
    /\ pc' = "read"
    /\ UNCHANGED <<val, hex, motor, coordVars, apVars, auxVars>>

\* get_pmc8_position: rapoint = convert_axispos_to_motor(axis_ra_pos)
GetPosition ==
    /\ pc = "read"
    /\ motor' = convert_axispos_to_motor(axispos)
    /\ pc' = "decoded"
    /\ UNCHANGED <<val, hex, axispos, coordVars, apVars, auxVars>>

NextHex == SetTargetPositionAxis \/ GetPositionAxis \/ GetPosition

SpecHex == InitHex /\ [][NextHex]_vars

-----------------------------------------------------------------------------
(* SpecCoord: a target (ra, dec) at sidereal time lst is converted to      *)
(* motor counts for a side of pier and back.                               *)

InitCoord ==
    /\ pc = "input"
    /\ HexIdle
    /\ APIdle
    /\ ra \in RASamples
    /\ dec \in DecSamples
    /\ lst \in LSTSamples
    /\ sop \in {PIER_EAST, PIER_WEST}
    /\ destsop = PIER_UNKNOWN
    /\ racounts = 0 /\ deccounts = 0 /\ ra_value = 0 /\ dec_value = 0

DestSideOfPier ==
    /\ pc = "input"
    /\ destsop' = destSideOfPier(ra, lst)
    /\ pc' = "pier"
    /\ UNCHANGED <<hexVars, apVars, auxVars, ra, dec, lst, sop, racounts, deccounts, ra_value, dec_value>>

ConvertToMotor ==
    /\ pc = "pier"
    /\ convert_to_motor_rc(sop)
    /\ racounts' = convert_ra_to_motor(ra, sop, lst)
    /\ deccounts' = convert_dec_to_motor(dec, sop)
    /\ pc' = "motor"
    /\ UNCHANGED <<hexVars, apVars, auxVars, ra, dec, lst, sop, destsop, ra_value, dec_value>>

ConvertMotorToRaDec ==
    /\ pc = "motor"
    /\ LET out == convert_motor_to_radec(racounts, deccounts, lst)
       IN  /\ ra_value' = out.ra_value
           /\ dec_value' = out.dec_value
    /\ pc' = "radec"
    /\ UNCHANGED <<hexVars, apVars, auxVars, ra, dec, lst, sop, destsop, racounts, deccounts>>

NextCoord == DestSideOfPier \/ ConvertToMotor \/ ConvertMotorToRaDec

SpecCoord == InitCoord /\ [][NextCoord]_vars

-----------------------------------------------------------------------------
(* SpecAP: the Astro-Physics driver under any sequence of calls from the   *)
(* host, with any mount replies and any failing exchange.                  *)

pureVars == <<pc, hexVars, coordVars, auxVars>>

InitAP ==
    /\ pc = "ap"
    /\ HexIdle
    /\ CoordIdle
    /\ APInitial
    /\ AuxIdle
    /\ trackMode \in TrackModes

\* what every operation records
Called(op) ==
    /\ lastOp' = op
    /\ prevState' = TrackState

\* polls counts the polls of the running slew only
PollsAfter(ts, n) == IF ts = SCOPE_SLEWING THEN n ELSE 0

\* updateLocation(latitude, longitude, elevation), its f-th exchange failing
updateLocationBody(f) ==
    IF f > 0
    THEN /\ wire' = Sent(<<":Sg", ":St">>, f)
         /\ rc' = FALSE
         /\ UNCHANGED <<locationUpdated, locThisSession, mountInitialized,
                        mountParked, TrackState>>
    ELSE /\ locationUpdated' = TRUE
         /\ locThisSession' = TRUE
         /\ rc' = TRUE
         /\ IF InitGate(TRUE, timeUpdated, mountInitialized)
            THEN \E o \in initMount([wire |-> <<":Sg", ":St">>, mi |-> mountInitialized,
                                     mp |-> mountParked, ts |-> TrackState, rc |-> TRUE]) :
                    /\ wire' = o.wire
                    /\ mountInitialized' = o.mi
                    /\ mountParked' = o.mp
                    /\ TrackState' = o.ts
            ELSE /\ wire' = <<":Sg", ":St">>
                 /\ UNCHANGED <<mountInitialized, mountParked, TrackState>>

\* Connect: the handshake, then updateProperties, which sends the site
\* location when the configuration file holds one
Connect ==
    /\ ~connected
    /\ connected' = TRUE
    /\ lastOp' = "Connect"
    /\ prevState' = TrackState
    /\ \E fw \in FirmwareSamples : firmwareVersion' = fw
    /\ \E hasConfig \in BOOLEAN :
          IF hasConfig
          THEN \E f \in 0..2 :
                  /\ updateLocationBody(f)
                  /\ EqNP_s' = NewRaDec(TrackState', EqNP_s)
          ELSE /\ wire' = <<>>
               /\ rc' = TRUE
               /\ EqNP_s' = EqNP_s
               /\ UNCHANGED <<locationUpdated, locThisSession, mountInitialized,
                              mountParked, TrackState>>
    /\ polls' = PollsAfter(TrackState', polls)
    /\ UNCHANGED <<pureVars, motionSince, timeUpdated, motionCommanded, trackMode,
                   lastRA, lastDE, lastAZ, lastAL>>

Disconnect ==
    /\ connected
    /\ Called("Disconnect")
    /\ timeUpdated' = FALSE
    /\ mountInitialized' = FALSE
    /\ connected' = FALSE
    /\ locThisSession' = FALSE
    /\ wire' = <<>>
    /\ rc' = TRUE
    /\ UNCHANGED <<pureVars, motionSince, TrackState, EqNP_s, locationUpdated, mountParked,
                   motionCommanded, firmwareVersion, trackMode, lastRA, lastDE,
                   lastAZ, lastAL, polls>>

updateTime ==
    /\ connected
    /\ Called("updateTime")
    /\ \E f \in 0..3 :
          IF f > 0
          THEN /\ wire' = Sent(<<":SL", ":SC", ":SG">>, f)
               /\ rc' = FALSE
               /\ UNCHANGED <<timeUpdated, mountInitialized, mountParked, TrackState>>
          ELSE /\ timeUpdated' = TRUE
               /\ rc' = TRUE
               /\ IF InitGate(locationUpdated, TRUE, mountInitialized)
                  THEN \E o \in initMount([wire |-> <<":SL", ":SC", ":SG">>,
                                           mi |-> mountInitialized, mp |-> mountParked,
                                           ts |-> TrackState, rc |-> TRUE]) :
                          /\ wire' = o.wire
                          /\ mountInitialized' = o.mi
                          /\ mountParked' = o.mp
                          /\ TrackState' = o.ts
                  ELSE /\ wire' = <<":SL", ":SC", ":SG">>
                       /\ UNCHANGED <<mountInitialized, mountParked, TrackState>>
    /\ polls' = PollsAfter(TrackState', polls)
    /\ UNCHANGED <<pureVars, motionSince, connected, EqNP_s, locationUpdated, motionCommanded,
                   firmwareVersion, trackMode, lastRA, lastDE, lastAZ, lastAL,
                   locThisSession>>

updateLocation ==
    /\ connected
    /\ Called("updateLocation")
    /\ \E f \in 0..2 : updateLocationBody(f)
    /\ polls' = PollsAfter(TrackState', polls)
    /\ UNCHANGED <<pureVars, motionSince, connected, EqNP_s, timeUpdated, motionCommanded,
                   firmwareVersion, trackMode, lastRA, lastDE, lastAZ, lastAL>>

\* Goto(r, d); f numbers the failing exchange among :Q# (sent only when the
\* coordinate property is busy), :Sr, :Sd, :MS#
Goto ==
    /\ connected
    /\ Called("Goto")
    /\ LET busy  == EqNP_s = IPS_BUSY
           abort == IF busy THEN <<":Q#">> ELSE <<>>
           plan  == abort \o <<":Sr", ":Sd", ":MS#">>
       IN  \E f \in 0..Len(plan) :
             /\ wire' = Sent(plan, f)
             /\ rc' = (f = 0)
             /\ IF f = 0
                THEN /\ motionCommanded' = TRUE /\ motionSince' = TRUE
                     /\ \E r \in Coords, d \in Coords :
                           /\ lastRA' = r
                           /\ lastDE' = d
                     /\ TrackState' = SCOPE_SLEWING
                     /\ EqNP_s' = IPS_BUSY
                     /\ polls' = 0
                ELSE /\ EqNP_s' = IF busy /\ f = 1 THEN EqNP_s ELSE IPS_ALERT
                     /\ UNCHANGED <<motionCommanded, motionSince, lastRA, lastDE, TrackState, polls>>
    /\ UNCHANGED <<pureVars, connected, timeUpdated, locationUpdated, mountInitialized,
                   mountParked, firmwareVersion, trackMode, lastAZ, lastAL,
                   locThisSession>>

\* Sync(ra, dec); the sync frame follows the SYNCCMR switch
Sync ==
    /\ connected
    /\ Called("Sync")
    /\ \E syncFrame \in {":CM#", ":CMR#"}, f \in 0..3 :
          /\ wire' = Sent(<<":Sr", ":Sd", syncFrame>>, f)
          /\ rc' = (f = 0)
          /\ EqNP_s' = IF f = 0 THEN NewRaDec(TrackState, IPS_OK) ELSE IPS_ALERT
    /\ UNCHANGED <<pureVars, motionSince, connected, TrackState, timeUpdated, locationUpdated,
                   mountInitialized, mountParked, motionCommanded, firmwareVersion,
                   trackMode, lastRA, lastDE, lastAZ, lastAL, polls, locThisSession>>

\* Park(); parkAz and parkAlt are the stored park position
Park ==
    /\ connected
    /\ Called("Park")
    /\ \E f \in 0..3 :
          /\ wire' = Sent(ParkPlan, f)
          /\ rc' = (f = 0)
          /\ IF f = 0
             THEN /\ motionCommanded' = TRUE /\ motionSince' = TRUE
                  /\ \E parkAz \in Coords, parkAlt \in Coords :
                        /\ lastAZ' = parkAz
                        /\ lastAL' = parkAlt
                  /\ EqNP_s' = IPS_BUSY
                  /\ TrackState' = SCOPE_PARKING
             ELSE UNCHANGED <<motionCommanded, motionSince, lastAZ, lastAL, EqNP_s, TrackState>>
    /\ polls' = PollsAfter(TrackState', polls)
    /\ UNCHANGED <<pureVars, connected, timeUpdated, locationUpdated, mountInitialized,
                   mountParked, firmwareVersion, trackMode, lastRA, lastDE,
                   locThisSession>>

UnPark ==
    /\ connected
    /\ Called("UnPark")
    /\ \E f \in 0..Len(SetTrackModePlan(trackMode)) : wire' = UnParkFrames(f)
    /\ TrackState' = SetParked(FALSE)
    /\ rc' = TRUE
    /\ polls' = 0
    /\ UNCHANGED <<pureVars, motionSince, connected, EqNP_s, timeUpdated, locationUpdated,
                   mountInitialized, mountParked, motionCommanded, firmwareVersion,
                   trackMode, lastRA, lastDE, lastAZ, lastAL, locThisSession>>

\* TrackState after a tick that read the position: a bug would be to call
\* SetParked before the result of setAPPark is tested
TickState_ParkFirst(ts, settled, parkOk) ==
    CASE ts = SCOPE_SLEWING -> IF settled THEN SCOPE_TRACKING ELSE SCOPE_SLEWING
      [] ts = SCOPE_PARKING -> IF settled THEN SetParked(TRUE) ELSE SCOPE_PARKING
      [] OTHER              -> ts

\* TrackState after a tick that read the position: a bug would be to take
\* a moving mount for a slewing one
TickState_InferSlew(ts, settled, parkOk) ==
    CASE ts = SCOPE_SLEWING -> IF settled THEN SCOPE_TRACKING ELSE SCOPE_SLEWING
      [] ts = SCOPE_PARKING -> IF settled /\ parkOk THEN SetParked(TRUE) ELSE SCOPE_PARKING
      [] OTHER              -> IF settled THEN ts ELSE SCOPE_SLEWING

\* TrackState after a tick that read the position: a slew is never taken as
\* complete
TickState_NoPromotion(ts, settled, parkOk) ==
    CASE ts = SCOPE_PARKING -> IF settled /\ parkOk THEN SetParked(TRUE) ELSE SCOPE_PARKING
      [] OTHER              -> ts

\* ReadScopeStatus: TrackState after a tick that read the position; settled
\* is dx == 0 && dy == 0 and parkOk the result of setAPPark
TickState(ts, settled, parkOk) ==
    CASE ts = SCOPE_SLEWING -> IF settled THEN SCOPE_TRACKING ELSE SCOPE_SLEWING
      [] ts = SCOPE_PARKING -> IF settled /\ parkOk THEN SetParked(TRUE) ELSE SCOPE_PARKING
      [] OTHER              -> ts

\* ReadScopeStatus(); r, d, az, alt are the values the mount replies, which
\* the code keeps in currentRA, currentDEC, currentAz, currentAlt
ReadScopeStatus ==
    /\ connected
    /\ Called("ReadScopeStatus")
    /\ \/ \* getLX200RA or getLX200DEC fails
          /\ wire' \in {<<":GR#">>, <<":GR#", ":GD#">>}
          /\ rc' = FALSE
          /\ EqNP_s' = IPS_ALERT
          /\ UNCHANGED <<TrackState, lastRA, lastDE, lastAZ, lastAL, polls>>
       \/ /\ TrackState = SCOPE_SLEWING
          /\ \E r \in Coords, d \in Coords :
                /\ TrackState' = TickState(TrackState,
                                           PositionSettled(lastRA, lastDE, r, d), TRUE)
                /\ lastRA' = r
                /\ lastDE' = d
          /\ polls' = PollsAfter(TrackState', IF polls < MaxPolls THEN polls + 1 ELSE MaxPolls)
          /\ wire' = <<":GR#", ":GD#", ":pS#">>
          /\ rc' = TRUE
          /\ EqNP_s' = NewRaDec(TrackState', EqNP_s)
          /\ UNCHANGED <<lastAZ, lastAL>>
       \/ /\ TrackState = SCOPE_PARKING
          /\ \/ \* getLX200Az or getLX200Alt fails
                /\ wire' \in {<<":GR#", ":GD#", ":GZ#">>,
                              <<":GR#", ":GD#", ":GZ#", ":GA#">>}
                /\ rc' = FALSE
                /\ EqNP_s' = IPS_ALERT
                /\ UNCHANGED <<TrackState, lastAZ, lastAL>>
             \/ \E az \in Coords, alt \in Coords :
                  IF PositionSettled(lastAZ, lastAL, az, alt)
                  THEN \/ \* setAPPark fails
                          /\ wire' = <<":GR#", ":GD#", ":GZ#", ":GA#", ":KA#">>
                          /\ TrackState' = TickState(TrackState, TRUE, FALSE)
                          /\ rc' = FALSE
                          /\ UNCHANGED <<EqNP_s, lastAZ, lastAL>>
                       \/ \* the result of SetTrackEnabled(false) is not tested
                          /\ \E f \in 0..1 :
                                wire' = <<":GR#", ":GD#", ":GZ#", ":GA#", ":KA#">>
                                          \o SetTrackEnabled(FALSE, f).wire \o <<":pS#">>
                          /\ TrackState' = TickState(TrackState, TRUE, TRUE)
                          /\ lastAZ' = az
                          /\ lastAL' = alt
                          /\ rc' = TRUE
                          /\ EqNP_s' = NewRaDec(TrackState', EqNP_s)
                  ELSE /\ wire' = <<":GR#", ":GD#", ":GZ#", ":GA#", ":pS#">>
                       /\ TrackState' = TickState(TrackState, FALSE, TRUE)
                       /\ lastAZ' = az
                       /\ lastAL' = alt
                       /\ rc' = TRUE
                       /\ EqNP_s' = NewRaDec(TrackState', EqNP_s)
          /\ UNCHANGED <<lastRA, lastDE, polls>>
       \/ /\ TrackState \notin {SCOPE_SLEWING, SCOPE_PARKING}
          /\ \E r \in Coords, d \in Coords :
                TrackState' = TickState(TrackState,
                                        PositionSettled(lastRA, lastDE, r, d), TRUE)
          /\ wire' = <<":GR#", ":GD#", ":pS#">>
          /\ rc' = TRUE
          /\ EqNP_s' = NewRaDec(TrackState', EqNP_s)
          /\ UNCHANGED <<lastRA, lastDE, lastAZ, lastAL, polls>>
    /\ UNCHANGED <<pureVars, motionSince, connected, timeUpdated, locationUpdated, mountInitialized,
                   mountParked, motionCommanded, firmwareVersion, trackMode,
                   locThisSession>>

NextAP ==
    \/ Connect
    \/ Disconnect
    \/ updateTime
    \/ updateLocation
    \/ Goto
    \/ Sync
    \/ Park
    \/ UnPark
    \/ ReadScopeStatus

SpecAP == InitAP /\ [][NextAP]_vars

-----------------------------------------------------------------------------
(* Claims *)

\* C1: a motor count x in [-2^23, 2^23-1] encoded by
\* convert_motor_counts_to_hex and decoded by convert_axispos_to_motor comes
\* back as x.
C1_RoundTrip24 == pc = "decoded" => motor = val

\* the hour angle x brought into (-12, +12] hours
NormalisedHourAngle(x) ==
    CHOOSE h \in {x - 24 * HourUnits, x, x + 24 * HourUnits} :
        0 - 12 * HourUnits < h /\ h <= 12 * HourUnits

\* C2: for RA and LST in [0,24) destSideOfPier returns EAST or WEST, and
\* WEST exactly when the hour angle LST - RA normalised to (-12,+12] is
\* negative; an hour angle of 0 gives EAST.
C2_DestSideOfPier ==
    pc = "pier" =>
        /\ destsop \in {PIER_EAST, PIER_WEST}
        /\ destsop = PIER_WEST <=> NormalisedHourAngle(lst - ra) < 0

\* an hour angle of exactly 0 was resolved to EAST
C2_Witness == pc = "pier" /\ lst = ra /\ destsop = PIER_EAST

\* one arc-second is PMC8_AXIS0_SCALE / ARCSEC_IN_CIRCLE = 32/9 motor counts
WithinArcsec(d) == Abs(d) * 9 <= 32 * Sub

\* distance between two right ascensions on the 24 h circle
RADistance(a, b) ==
    LET d == Abs(a - b)
    IN  IF d > 12 * HourUnits THEN 24 * HourUnits - d ELSE d

\* C3: (RA, Dec, pier) converted to motor counts and back at the same LST
\* gives an RA and a Dec within 1 arc-second of the inputs, for either side
\* of pier and every Dec in [-90, +90].
C3_RoundTripRaDec ==
    pc = "radec" =>
        /\ WithinArcsec(RADistance(ra_value, ra))
        /\ WithinArcsec(dec_value - dec)

\* a/b (b > 0) rounded to nearest, halves away from zero, as C's round()
RoundDiv(a, b) ==
    IF a >= 0 THEN (2 * a + b) \div (2 * b)
    ELSE 0 - ((2 * (0 - a) + b) \div (2 * b))

\* C4: the target motor counts are the scaled motor angles rounded to the
\* nearest integer.
C4_CountsAreRounded ==
    pc \in {"motor", "radec"} =>
        /\ racounts = RoundDiv(ra_motor_angle(ra, sop, lst), Sub)
        /\ deccounts = RoundDiv(dec_motor_angle(dec, sop), Sub)


\* does frame fr occur in w
Has(w, fr) == \E i \in DOMAIN w : w[i] = fr

\* a successful poll of a slew in progress: the step of ReadScopeStatus that
\* reads RA and Dec while the state is SLEWING
SlewPoll == lastOp' = "ReadScopeStatus" /\ TrackState = SCOPE_SLEWING /\ rc'

\* C5 as stated: a poll completes the slew (SLEWING -> TRACKING) only if it
\* is at least the second poll since the Goto and reads the RA and Dec of the
\* poll before it; a poll whose RA or Dec differs from the previous sample
\* keeps SLEWING; every poll snapshots last <- current.
C5_TwoPollStasis ==
    [][SlewPoll =>
          /\ TrackState' = SCOPE_TRACKING =>
                polls >= 1 /\ lastRA' = lastRA /\ lastDE' = lastDE
          /\ (lastRA' # lastRA \/ lastDE' # lastDE) => TrackState' = SCOPE_SLEWING
      ]_vars

\* C5 amended: a poll completes the slew exactly when the RA and Dec it reads
\* both equal the previous sample (lastRA, lastDE), which is the Goto target
\* until the first poll and the preceding poll's reading afterwards; a poll
\* whose RA or Dec differs keeps SLEWING; every poll snapshots last <- current.
C5_SlewCompletion ==
    [][SlewPoll =>
          /\ TrackState' \in {SCOPE_SLEWING, SCOPE_TRACKING}
          /\ TrackState' = SCOPE_TRACKING <=> (lastRA' = lastRA /\ lastDE' = lastDE)
          /\ Has(wire', ":GR#") /\ Has(wire', ":GD#")
      ]_vars

\* a slew completed by a poll
C5_Witness ==
    /\ lastOp = "ReadScopeStatus" /\ rc
    /\ prevState = SCOPE_SLEWING
    /\ TrackState = SCOPE_TRACKING

\* the position of frame fr in w (0 when absent)
IndexOf(w, fr) == IF Has(w, fr) THEN CHOOSE i \in DOMAIN w : w[i] = fr ELSE 0

\* C6: Park() writes set-Az, set-Alt, :MS# in that order and sets PARKING only
\* when all three succeed (otherwise the state is unchanged); a ReadStatus
\* tick in PARKING that reads Az and Alt sends :KA# exactly when both equal
\* the previous sample (lastAZ, lastAL); when :KA# succeeds the tracking-off
\* frame follows it and the state becomes PARKED; when :KA# fails nothing
\* follows it and the state stays PARKING.
C6_ParkCycle ==
    [][/\ lastOp' = "Park" =>
            /\ \E n \in 1..3 : wire' = SubSeq(<<":Sz", ":Sa", ":MS#">>, 1, n)
            /\ TrackState' = IF rc' THEN SCOPE_PARKING ELSE TrackState
            /\ rc' => wire' = <<":Sz", ":Sa", ":MS#">>
       /\ (lastOp' = "ReadScopeStatus" /\ TrackState = SCOPE_PARKING) =>
            /\ TrackState' \in {SCOPE_PARKING, SCOPE_PARKED}
            /\ (Has(wire', ":GA#") /\ Len(wire') > IndexOf(wire', ":GA#")) =>
                  (Has(wire', ":KA#") <=> (lastAZ' = lastAZ /\ lastAL' = lastAL))
            /\ TrackState' = SCOPE_PARKED <=>
                  /\ Has(wire', ":KA#")
                  /\ Len(wire') > IndexOf(wire', ":KA#")
                  /\ wire'[IndexOf(wire', ":KA#") + 1] = ":RT9#"
            /\ (Has(wire', ":KA#") /\ Len(wire') = IndexOf(wire', ":KA#")) =>
                  TrackState' = SCOPE_PARKING /\ ~rc'
      ]_vars

\* a park completed by a tick
C6_Witness ==
    /\ lastOp = "ReadScopeStatus" /\ rc
    /\ prevState = SCOPE_PARKING
    /\ TrackState = SCOPE_PARKED
    /\ Has(wire, ":KA#")

C8_GotoWhileParkedFails ==
    (lastOp = "Goto" /\ prevState = SCOPE_PARKED) =>
        ~rc /\ wire = <<>> /\ TrackState = SCOPE_PARKED

\* have time, location and mount initialisation all completed in this session
SessionInitialized == timeUpdated /\ locThisSession /\ mountInitialized

\* C9: a Goto or Sync called before time, location and mount initialisation
\* have all completed in the session fails, writes no set-object, slew or
\* sync frame, and leaves the state unchanged.
C9_InitializationRequired ==
    (lastOp \in {"Goto", "Sync"} /\ ~SessionInitialized) =>
        /\ ~rc
        /\ \A fr \in {":Sr", ":Sd", ":MS#", ":CM#", ":CMR#"} : ~Has(wire, fr)
        /\ TrackState = prevState

\* initMount has been started by the last operation: its first exchange,
\* reading RA, follows the time or location frames
InitMountStarted ==
    /\ lastOp \in {"Connect", "updateTime", "updateLocation"}
    /\ Has(wire, ":GR#")

\* C10: initMount is started only when an UpdateTime and an UpdateLocation
\* have both succeeded since the last Connect.
C10_InitAfterTimeAndLocation ==
    InitMountStarted => (timeUpdated /\ locThisSession)

\* C11: after Disconnect the three session flags, timeUpdated,
\* locationUpdated and mountInitialized, are all false.
C11_DisconnectClearsFlags ==
    lastOp = "Disconnect" =>
        ~timeUpdated /\ ~locationUpdated /\ ~mountInitialized

-----------------------------------------------------------------------------
(* SpecInit: one call of initMount, for any position the mount replies to  *)
(* IsMountInitialized and any failing exchange.                            *)

\* the RA replies: zero, just inside and just outside epscheck, 6 h
InitRASamples == {0, epscheck - 1, epscheck + 1, 6 * AngleScale}

\* the Dec replies: around zero, around the pole, and away from both
InitDecSamples ==
    {0 - 90 * AngleScale, 1 - epscheck, 0, epscheck - 1, epscheck + 1,
     45 * AngleScale, 90 * AngleScale - epscheck - 1,
     90 * AngleScale - epscheck + 1, 90 * AngleScale}

\* the members when updateTime or updateLocation calls initMount
InitInit ==
    /\ pc = "call"
    /\ HexIdle
    /\ CoordIdle
    /\ jog = <<>>
    /\ args = <<>> /\ ret = <<>>
    /\ connected = TRUE
    /\ TrackState \in {SCOPE_IDLE, SCOPE_PARKED}
    /\ prevState = TrackState
    /\ EqNP_s = IPS_IDLE
    /\ timeUpdated = TRUE /\ locationUpdated = TRUE /\ locThisSession = TRUE
    /\ mountInitialized = FALSE /\ mountParked = FALSE
    /\ motionCommanded = FALSE
    /\ firmwareVersion \in FirmwareSamples
    /\ trackMode \in TrackModes
    /\ lastRA = 0 /\ lastDE = 0 /\ lastAZ = 0 /\ lastAL = 0
    /\ wire = <<>> /\ lastOp = "none" /\ rc = TRUE /\ polls = 0
    /\ motionSince = FALSE
    /\ guideSpeed = 0
    /\ failing = {} /\ versionString = <<>>
    /\ initRA \in InitRASamples
    /\ initDEC \in InitDecSamples

\* initMount()
InitMountCall ==
    /\ pc = "call"
    /\ InitGate(locationUpdated, timeUpdated, mountInitialized)
    /\ pc' = "done"
    /\ lastOp' = "initMount"
    /\ prevState' = TrackState
    /\ \E o \in initMountReading([wire |-> <<>>, mi |-> mountInitialized,
                                  mp |-> mountParked, ts |-> TrackState,
                                  rc |-> TRUE], initRA, initDEC) :
          /\ wire' = o.wire
          /\ mountInitialized' = o.mi
          /\ mountParked' = o.mp
          /\ TrackState' = o.ts
          /\ rc' = o.rc
    /\ UNCHANGED <<hexVars, coordVars, auxVars, motionSince, connected, EqNP_s, timeUpdated,
                   locationUpdated, motionCommanded, firmwareVersion, trackMode,
                   lastRA, lastDE, lastAZ, lastAL, polls, locThisSession>>

NextInit == InitMountCall

SpecInit == InitInit /\ [][NextInit]_vars

\* x is within 1e-5 of target
Within1e5(x, target) == Abs(x - target) < AngleScale \div 100000

\* the mount reports RA = 0 together with Dec = 0 or Dec = 90
ReportsUninitialized ==
    /\ Within1e5(initRA, 0)
    /\ Within1e5(initDEC, 0) \/ Within1e5(initDEC, 90 * AngleScale)

\* C12: initMount writes :PO# only when the mount reports RA = 0 with
\* Dec = 0 or 90 (within 1e-5), :Q# only right after :PO#, and both whenever
\* it returns success on such a report; on any other report it writes
\* neither and a successful initMount leaves the mount initialised.
C12_InitFrames ==
    pc = "done" =>
        /\ Has(wire, ":PO#") => ReportsUninitialized
        /\ Has(wire, ":Q#") =>
              /\ IndexOf(wire, ":Q#") > 1
              /\ wire[IndexOf(wire, ":Q#") - 1] = ":PO#"
        /\ (rc /\ ReportsUninitialized) => (Has(wire, ":PO#") /\ Has(wire, ":Q#"))
        /\ rc => mountInitialized

\* initMount succeeded on a mount reporting RA = 0, Dec = 90
C12_Witness ==
    /\ pc = "done" /\ rc
    /\ initRA = 0 /\ initDEC = 90 * AngleScale
    /\ Has(wire, ":PO#") /\ Has(wire, ":Q#")

\* C13: once the mount is initialised in a session, no UpdateTime,
\* UpdateLocation, UnPark, Goto or Park writes :PO# or runs initMount again
\* (initMount would read RA after the time or location frames), and the
\* mount stays initialised.
C13_InitOneShot ==
    [][(mountInitialized
          /\ lastOp' \in {"updateTime", "updateLocation", "UnPark", "Goto", "Park"}) =>
            /\ ~Has(wire', ":PO#")
            /\ lastOp' \in {"updateTime", "updateLocation"} => ~Has(wire', ":GR#")
            /\ mountInitialized'
      ]_vars

\* a successful UpdateTime on an initialised mount
C13_Witness ==
    /\ lastOp = "updateTime" /\ rc
    /\ timeUpdated /\ locationUpdated /\ mountInitialized
    /\ wire = <<":SL", ":SC", ":SG">>

\* C14: a Goto called while the state is SLEWING first writes :Q#, then the
\* frames of the new target in the order :Sr, :Sd, :MS#; it writes nothing
\* after a frame that fails, and succeeds only when all four were written.
C14_GotoPreempts ==
    (lastOp = "Goto" /\ prevState = SCOPE_SLEWING) =>
        /\ \E n \in 1..4 : wire = SubSeq(<<":Q#", ":Sr", ":Sd", ":MS#">>, 1, n)
        /\ rc => wire = <<":Q#", ":Sr", ":Sd", ":MS#">>

-----------------------------------------------------------------------------
(* SpecGuide: motion commands and pulse guiding.  The frames of            *)
(* LX200Generic::MoveNS / MoveWE are ":Mn#", ":Ms#", ":Mw#", ":Me#" to     *)
(* start and ":Qn#", ":Qs#", ":Qw#", ":Qe#" to stop; selectAPGuideRate     *)
(* writes ":RGn#"; the pulse frame of APSendPulseCmd is named by its       *)
(* function.                                                               *)

\* the guide rates of APGuideSpeedSP: 0.25x, 0.5x, 1.0x
GuideSpeeds == {0, 1, 2}

\* selectAPGuideRate(PortFD, index)
GuideRateFrame(g) == <<":RG0#", ":RG1#", ":RG2#">>[g + 1]

\* LX200Generic::MoveNS / MoveWE
MoveFrame(dir, command) ==
    IF command = "MOTION_START"
    THEN CASE dir = "NORTH" -> ":Mn#" [] dir = "SOUTH" -> ":Ms#"
           [] dir = "WEST"  -> ":Mw#" [] OTHER         -> ":Me#"
    ELSE CASE dir = "NORTH" -> ":Qn#" [] dir = "SOUTH" -> ":Qs#"
           [] dir = "WEST"  -> ":Qw#" [] OTHER         -> ":Qe#"

\* the guide rate re-issued on every firmware
NeedsGuideRate_AnyFirmware(fw, mc) == mc

\* SendPulseCmd: firmwareVersion == MCV_E; handleGTOCP2MotionBug: motionCommanded
NeedsGuideRate(fw, mc) == fw = MCV_E /\ mc

InitGuide ==
    /\ pc = "ap"
    /\ HexIdle
    /\ CoordIdle
    /\ jog = <<>>
    /\ args = <<>> /\ ret = <<>>
    /\ APInitial
    /\ trackMode = TRACK_SIDEREAL
    /\ initRA = 0 /\ initDEC = 0
    /\ failing = {} /\ versionString = <<>>
    /\ guideSpeed \in GuideSpeeds

\* MoveNS / MoveWE for the directions dirs
Move(op, dirs) ==
    /\ connected
    /\ Called(op)
    /\ \E dir \in dirs, command \in {"MOTION_START", "MOTION_STOP"} :
          /\ wire' = <<MoveFrame(dir, command)>>
          /\ rc' \in BOOLEAN
          /\ motionCommanded' = IF command = "MOTION_START" THEN TRUE ELSE motionCommanded
          /\ motionSince' = IF command = "MOTION_START" THEN TRUE ELSE motionSince
    /\ UNCHANGED <<pureVars, connected, TrackState, EqNP_s, timeUpdated, locationUpdated,
                   mountInitialized, mountParked, firmwareVersion, trackMode,
                   lastRA, lastDE, lastAZ, lastAL, polls, locThisSession>>

MoveNS == Move("MoveNS", {"NORTH", "SOUTH"})

MoveWE == Move("MoveWE", {"WEST", "EAST"})

\* SendPulseCmd(direction, duration_msec)
SendPulseCmd ==
    /\ connected
    /\ Called("SendPulseCmd")
    /\ LET reissue == NeedsGuideRate(firmwareVersion, motionCommanded)
       IN  /\ wire' = (IF reissue THEN <<GuideRateFrame(guideSpeed)>> ELSE <<>>)
                        \o <<"APSendPulseCmd">>
           /\ motionCommanded' = IF reissue THEN FALSE ELSE motionCommanded
           /\ motionSince' = IF reissue THEN FALSE ELSE motionSince
    /\ rc' \in BOOLEAN
    /\ UNCHANGED <<pureVars, connected, TrackState, EqNP_s, timeUpdated, locationUpdated,
                   mountInitialized, mountParked, firmwareVersion, trackMode,
                   lastRA, lastDE, lastAZ, lastAL, polls, locThisSession>>

NextGuide ==
    \/ Connect
    \/ Disconnect
    \/ Goto
    \/ Park
    \/ MoveNS
    \/ MoveWE
    \/ SendPulseCmd

SpecGuide == InitGuide /\ [][NextGuide]_vars

\* C15: on firmware E a PulseGuide that follows a motion command (a
\* successful Goto or Park, or a MoveNS / MoveWE start) with no guide-rate
\* frame since writes the guide-rate frame of the user's guide rate and then
\* the pulse frame; every other PulseGuide writes the pulse frame alone.
C15_GuideRateReissue ==
    [][lastOp' = "SendPulseCmd" =>
          wire' = IF firmwareVersion = MCV_E /\ motionSince
                  THEN <<<<":RG0#", ":RG1#", ":RG2#">>[guideSpeed + 1], "APSendPulseCmd">>
                  ELSE <<"APSendPulseCmd">>
      ]_vars

\* a pulse on firmware E after a motion command, at the 1.0x guide rate
C15_Witness ==
    /\ lastOp = "SendPulseCmd"
    /\ firmwareVersion = MCV_E
    /\ guideSpeed = 2
    /\ wire = <<":RG2#", "APSendPulseCmd">>

-----------------------------------------------------------------------------
(* SpecHandshake: one call of Handshake, for any set of failing exchanges  *)
(* and any reply to the firmware query.  setAPClearBuffer writes "#" and   *)
(* getAPVersionNumber ":V#"; the frames of setAPBackLashCompensation and   *)
(* checkLX200Format are named by their functions.                          *)

\* the characters of a version reply, with their ASCII codes
VersionChars == <<"-", "0", "1", "4", "C", "D", "E", "F", "G", "P", "T", "V", "Z">>
VersionCodes == <<45, 48, 49, 52, 67, 68, 69, 70, 71, 80, 84, 86, 90>>

Ascii(c) == VersionCodes[CHOOSE i \in DOMAIN VersionChars : VersionChars[i] = c]

\* strstr(s, sub) != NULL
Strstr(s, sub) ==
    \E i \in 1..(Len(s) - Len(sub) + 1) : SubSeq(s, i, i + Len(sub) - 1) = sub

\* the replies to the firmware query in the model
VersionSamples ==
    { <<"V", "C", "P", "4", "-", "P", "0", "1", "-", "0", "1">>,
      <<"E">>, <<"F">>, <<"G">>, <<"T">>, <<"V", "1">>, <<"D">>, <<"Z">>, <<>> }

\* getFirmwareVersion: the firmware detected from reply v, fw being the
\* value of firmwareVersion before
getFirmwareVersion(v, fw) ==
    IF Strstr(v, <<"V", "C", "P", "4">>)
    THEN [fw |-> MCV_V, success |-> TRUE]
    ELSE IF Len(v) \in {1, 2} /\ Ascii(v[1]) - Ascii("E") >= 0
         THEN [fw |-> Ascii(v[1]) - Ascii("E"), success |-> TRUE]
         ELSE [fw |-> fw, success |-> FALSE]

\* the exchanges of Handshake
HandshakeExchanges == {"clear", "backlash1", "backlash2", "version", "format"}

\* the backlash command sent again when the first send succeeded
BacklashSends_Inverted(fails) == IF "backlash1" \in fails THEN 1 ELSE 2

\* Handshake: how often setAPBackLashCompensation is called
BacklashSends(fails) == IF "backlash1" \in fails THEN 2 ELSE 1

\* Handshake: did setAPBackLashCompensation succeed in the end
BacklashOk(fails) ==
    IF BacklashSends(fails) = 1
    THEN "backlash1" \notin fails
    ELSE "backlash2" \notin fails

InitHandshake ==
    /\ pc = "call"
    /\ HexIdle
    /\ CoordIdle
    /\ jog = <<>>
    /\ args = <<>> /\ ret = <<>>
    /\ APInitial
    /\ trackMode = TRACK_SIDEREAL
    /\ initRA = 0 /\ initDEC = 0 /\ guideSpeed = 0
    /\ failing \in SUBSET HandshakeExchanges
    /\ versionString \in VersionSamples

\* Handshake(); when the firmware query fails the version buffer holds
\* whatever was in it
Handshake ==
    /\ pc = "call"
    /\ pc' = "done"
    /\ Called("Handshake")
    /\ LET backlash == [i \in 1..BacklashSends(failing) |-> "setAPBackLashCompensation"]
       IN  IF "clear" \in failing
           THEN /\ wire' = <<"#">>
                /\ rc' = FALSE
                /\ UNCHANGED firmwareVersion
           ELSE IF ~BacklashOk(failing)
           THEN /\ wire' = <<"#">> \o backlash
                /\ rc' = FALSE
                /\ UNCHANGED firmwareVersion
           ELSE /\ wire' = <<"#">> \o backlash \o <<":V#", "checkLX200Format">>
                /\ rc' = ("format" \notin failing)
                /\ \E v \in (IF "version" \in failing THEN VersionSamples
                                                     ELSE {versionString}) :
                      firmwareVersion' = getFirmwareVersion(v, firmwareVersion).fw
    /\ UNCHANGED <<hexVars, coordVars, auxVars, motionSince, connected, TrackState,
                   EqNP_s, timeUpdated, locationUpdated, mountInitialized, mountParked,
                   motionCommanded, trackMode, lastRA, lastDE, lastAZ, lastAL, polls,
                   locThisSession>>

NextHandshake == Handshake

SpecHandshake == InitHandshake /\ [][NextHandshake]_vars

\* how often frame fr occurs in w
Count(w, fr) == Cardinality({i \in DOMAIN w : w[i] = fr})

\* C16: Handshake sends the backlash command once, and a second time exactly
\* when the first send failed, never a third time; when both sends fail it
\* fails without querying the firmware.
C16_BacklashRetriedOnce ==
    (pc = "done" /\ "clear" \notin failing) =>
        /\ Count(wire, "setAPBackLashCompensation") =
              IF "backlash1" \in failing THEN 2 ELSE 1
        /\ {"backlash1", "backlash2"} \subseteq failing =>
              ~rc /\ ~Has(wire, ":V#")

\* the first send failed and the second succeeded
C16_Witness ==
    /\ pc = "done" /\ rc
    /\ "backlash1" \in failing
    /\ wire = <<"#", "setAPBackLashCompensation", "setAPBackLashCompensation",
                ":V#", "checkLX200Format">>

-----------------------------------------------------------------------------
(* SpecConnect: one call of check_pmc8_connection, for any set of failing  *)
(* exchanges.  "write1", "read1" are the tty_write and tty_read_section of *)
(* the first pass of the loop and "reply1" a reply that does not start     *)
(* with ESGvES; likewise for the second pass.                              *)

ConnectExchanges == {"write1", "read1", "reply1", "write2", "read2", "reply2"}

\* check_pmc8_connection: does pass i of the loop return true
PassOk(fails, i) ==
    IF i = 1 THEN fails \cap {"write1", "read1", "reply1"} = {}
             ELSE fails \cap {"write2", "read2", "reply2"} = {}

InitConnect ==
    /\ pc = "call"
    /\ HexIdle
    /\ CoordIdle
    /\ jog = <<>>
    /\ args = <<>> /\ ret = <<>>
    /\ APInitial
    /\ trackMode = TRACK_SIDEREAL
    /\ initRA = 0 /\ initDEC = 0 /\ guideSpeed = 0
    /\ versionString = <<>>
    /\ failing \in SUBSET ConnectExchanges

\* check_pmc8_connection(fd): for (int i = 0; i < 2; i++)
check_pmc8_connection ==
    /\ pc = "call"
    /\ pc' = "done"
    /\ Called("check_pmc8_connection")
    /\ IF PassOk(failing, 1)
       THEN /\ wire' = <<"ESGv!">>
            /\ rc' = TRUE
       ELSE /\ wire' = <<"ESGv!", "ESGv!">>
            /\ rc' = PassOk(failing, 2)
    /\ UNCHANGED <<hexVars, coordVars, auxVars, motionSince, connected, TrackState,
                   EqNP_s, timeUpdated, locationUpdated, mountInitialized, mountParked,
                   motionCommanded, firmwareVersion, trackMode, lastRA, lastDE, lastAZ,
                   lastAL, polls, locThisSession>>

NextConnect == check_pmc8_connection

SpecConnect == InitConnect /\ [][NextConnect]_vars

\* C17: when the write or the read of the identify exchange fails,
\* check_pmc8_connection reports failure and has written ESGv! only once.
C17_IdentifyNotRetried ==
    (pc = "done" /\ lastOp = "check_pmc8_connection"
        /\ failing \cap {"write1", "read1"} # {}) =>
            ~rc /\ Count(wire, "ESGv!") = 1

-----------------------------------------------------------------------------
(* SpecJog: one call of start_pmc8_motion(fd, dir, mode), for any rates    *)
(* the mount reports and any set of failing exchanges.                     *)

\* the %d of a PMC8_AXIS in a frame: axis 0 is RA, axis 1 is Dec
AxisDigit(axis) == IF axis = "PMC8_RA_AXIS" THEN "0" ELSE "1"

\* the rates the mount reports, around the slewing threshold
RateSamples == {0, PMC8_MINSLEWRATE - 2, PMC8_MINSLEWRATE, PMC8_MINSLEWRATE + 1}

JogDirections == {"PMC8_N", "PMC8_S", "PMC8_W", "PMC8_E"}

JogModes == 0..4

JogExchanges == {"ESGr_RA", "ESGr_DEC", "ESSd", "ESSr"}

\* get_pmc8_tracking_rate_axis: snprintf(cmd, sizeof(cmd), "ESGr%d!", axis)
GetRateFrame(axis) == "ESGr" \o AxisDigit(axis) \o "!"

\* set_pmc8_direction_axis: snprintf(cmd, sizeof(cmd), "ESSd%d%d!", axis, dir)
SetDirectionFrame(axis, d) == "ESSd" \o AxisDigit(axis) \o d \o "!"

\* set_pmc8_axis_move_rate: snprintf(cmd, sizeof(cmd), "ESSr%d%04X!", axis, rateval)
SetMoveRateFrame(axis, rateval) == "ESSr" \o AxisDigit(axis) \o CString(Sprintf04X(rateval)) \o "!"

\* get_pmc8_is_scope_slewing: the frames written
SlewingQuery(fails) ==
    IF "ESGr_RA" \in fails
    THEN <<GetRateFrame("PMC8_RA_AXIS")>>
    ELSE <<GetRateFrame("PMC8_RA_AXIS"), GetRateFrame("PMC8_DEC_AXIS")>>

\* get_pmc8_is_scope_slewing: does it return true
SlewingQueryOk(fails) == fails \cap {"ESGr_RA", "ESGr_DEC"} = {}

\* get_pmc8_is_scope_slewing: isslew
isslew(rarate, decrate) == rarate > PMC8_MINSLEWRATE \/ decrate > PMC8_MINSLEWRATE

convert_movespeedindex_to_rate(mode) ==
    CASE mode = 0 -> 4 * 15
      [] mode = 1 -> 16 * 15
      [] mode = 2 -> 64 * 15
      [] mode = 3 -> 256 * 15
      [] OTHER    -> 0

\* convert_move_rate_to_motor: (int)(rate*(PMC8_AXIS0_SCALE/ARCSEC_IN_CIRCLE)), clamped
convert_move_rate_to_motor(rate) ==
    LET mrate == TruncDiv(rate * ScaleNum, ScaleDen * RateUnits)
    IN  IF mrate > PMC8_MAX_MOVE_MOTOR_RATE THEN PMC8_MAX_MOVE_MOTOR_RATE
        ELSE IF mrate < 0 - PMC8_MAX_MOVE_MOTOR_RATE THEN 0 - PMC8_MAX_MOVE_MOTOR_RATE
        ELSE mrate

\* set_pmc8_axis_move_rate(fd, axis, rate): the frames written
set_pmc8_axis_move_rate(axis, rate, fails) ==
    LET d == IF rate < 0 THEN "0" ELSE "1"
    IN  IF "ESSd" \in fails
        THEN <<SetDirectionFrame(axis, d)>>
        ELSE <<SetDirectionFrame(axis, d),
               SetMoveRateFrame(axis, convert_move_rate_to_motor(Abs(rate)))>>

\* start_pmc8_motion: the frames written after the slewing test
MotionFrames(dir, mode, fails) ==
    LET req0    == convert_movespeedindex_to_rate(mode)
        reqrate == IF req0 > PMC8_MAX_MOVE_MOTOR_RATE THEN PMC8_MAX_MOVE_MOTOR_RATE
                   ELSE req0
        decrate == CASE dir = "PMC8_N" -> reqrate
                     [] dir = "PMC8_S" -> -reqrate
                     [] OTHER -> 0
        rarate  == CASE dir = "PMC8_W" -> reqrate
                     [] dir = "PMC8_E" -> -reqrate
                     [] OTHER -> 0
    IN  (IF rarate # 0
         THEN set_pmc8_axis_move_rate("PMC8_RA_AXIS", rarate * RateUnits, fails)
         ELSE <<>>)
        \o
        (IF decrate # 0
         THEN set_pmc8_axis_move_rate("PMC8_DEC_AXIS", decrate * RateUnits, fails)
         ELSE <<>>)

InitJog ==
    /\ pc = "call"
    /\ HexIdle
    /\ CoordIdle
    /\ args = <<>> /\ ret = <<>>
    /\ APInitial
    /\ trackMode = TRACK_SIDEREAL
    /\ initRA = 0 /\ initDEC = 0 /\ guideSpeed = 0
    /\ versionString = <<>>
    /\ failing \in SUBSET JogExchanges
    /\ jog \in [rarate : RateSamples, decrate : RateSamples,
                dir : JogDirections, mode : JogModes]

\* start_pmc8_motion(fd, dir, mode)
start_pmc8_motion ==
    /\ pc = "call"
    /\ pc' = "done"
    /\ Called("start_pmc8_motion")
    /\ IF ~SlewingQueryOk(failing)
       THEN /\ wire' = SlewingQuery(failing)
            /\ rc' = FALSE
       ELSE IF isslew(jog.rarate, jog.decrate)
       THEN /\ wire' = SlewingQuery(failing)
            /\ rc' = FALSE
       ELSE /\ wire' = SlewingQuery(failing) \o MotionFrames(jog.dir, jog.mode, failing)
            /\ rc' = TRUE
    /\ UNCHANGED <<hexVars, coordVars, auxVars, motionSince, connected, TrackState,
                   EqNP_s, timeUpdated, locationUpdated, mountInitialized, mountParked,
                   motionCommanded, firmwareVersion, trackMode, lastRA, lastDE, lastAZ,
                   lastAL, polls, locThisSession>>

NextJog == start_pmc8_motion

SpecJog == InitJog /\ [][NextJog]_vars

\* C18: a jog requested while the mount is slewing fails and no frame at all
\* is written between the call and the failure return.
C18_JogDuringSlewSilent ==
    (pc = "done" /\ lastOp = "start_pmc8_motion"
        /\ isslew(jog.rarate, jog.decrate)) =>
            ~rc /\ wire = <<>>

\* C19: a ReadScopeStatus tick that fails (RA/Dec read, Az/Alt read while
\* PARKING, or :KA#) reports failure and leaves TrackState and the snapshot
\* lastRA/lastDE, lastAZ/lastAL exactly as they were before the tick.
C19_FailedTickLeavesState ==
    [][(lastOp' = "ReadScopeStatus" /\ ~rc') =>
           /\ TrackState' = TrackState
           /\ lastRA' = lastRA /\ lastDE' = lastDE
           /\ lastAZ' = lastAZ /\ lastAL' = lastAL]_vars

\* a tick failed on :KA# while PARKING
C19_Witness ==
    /\ lastOp = "ReadScopeStatus" /\ ~rc
    /\ prevState = SCOPE_PARKING
    /\ Has(wire, ":KA#")

\* C20: a ReadScopeStatus tick never enters SLEWING from another state, and
\* the only state changes it makes are SLEWING to TRACKING and PARKING to
\* PARKED.
C20_TickNeverEntersSlewing ==
    lastOp = "ReadScopeStatus" =>
        /\ prevState # SCOPE_SLEWING => TrackState # SCOPE_SLEWING
        /\ TrackState # prevState =>
              \/ prevState = SCOPE_SLEWING /\ TrackState = SCOPE_TRACKING
              \/ prevState = SCOPE_PARKING /\ TrackState = SCOPE_PARKED

\* a tick taken in IDLE that read the position
C20_Witness ==
    /\ lastOp = "ReadScopeStatus" /\ rc
    /\ prevState = SCOPE_IDLE /\ TrackState = SCOPE_IDLE

-----------------------------------------------------------------------------
(* Functions of the PMC8 and AP codecs called on their own.  args holds    *)
(* the arguments of the call and what the mount does, ret what the         *)
(* function hands back; the rest of the driver is at rest.                 *)

CallInit ==
    /\ pc = "call"
    /\ HexIdle
    /\ CoordIdle
    /\ APInitial
    /\ trackMode = TRACK_SIDEREAL
    /\ initRA = 0 /\ initDEC = 0 /\ guideSpeed = 0
    /\ failing = {} /\ versionString = <<>>
    /\ jog = <<>>
    /\ ret = <<>>

\* the call op returns
Returns(op) ==
    /\ pc = "call"
    /\ pc' = "done"
    /\ Called(op)
    /\ UNCHANGED <<hexVars, coordVars, initRA, initDEC, guideSpeed, failing,
                   versionString, jog, args, motionSince, connected, TrackState,
                   EqNP_s, timeUpdated, locationUpdated, mountInitialized, mountParked,
                   motionCommanded, firmwareVersion, trackMode, lastRA, lastDE, lastAZ,
                   lastAL, polls, locThisSession>>

-----------------------------------------------------------------------------
(* SpecFirmware: one call of get_pmc8_main_firmware.  A reply is the       *)
(* sequence of bytes the mount sends after the command.                    *)

\* #define PMC8_SIMUL_VERSION_RESP "ESGvES06B9T9"
PMC8_SIMUL_VERSION_RESP == <<"E", "S", "G", "v", "E", "S", "0", "6", "B", "9", "T", "9">>

BoardSamples == {<<"0", "6", "B", "9", "T", "9">>, <<"0", "0", "0", "0", "0", "0">>,
                 <<"A", "1", "B", "2", "C", "3">>, <<"0", "6", "B", "9", "T", "8">>}

TerminatorSamples == {<<"!">>, <<"#">>, <<"!", "#">>, <<>>}

ReplySamples ==
    {<<"E", "S", "G", "v", "E", "S">> \o b \o t : b \in BoardSamples, t \in TerminatorSamples}

\* index of the first stop_char in the stream, 0 if there is none
FirstStop(stream, stop_char) ==
    IF \E i \in DOMAIN stream : stream[i] = stop_char
    THEN CHOOSE i \in DOMAIN stream :
            /\ stream[i] = stop_char
            /\ \A j \in 1..(i - 1) : stream[j] # stop_char
    ELSE 0

\* tty_read_section(fd, buf, stop_char, timeout, &nbytes_read): the bytes up
\* to and including the first stop_char; a time-out when it never comes
tty_read_section(stream, stop_char) ==
    LET n == FirstStop(stream, stop_char)
    IN  IF n = 0 THEN [ok |-> FALSE, buf |-> <<>>]
        ELSE [ok |-> TRUE, buf |-> SubSeq(stream, 1, n)]


\* get_pmc8_main_firmware: tty_read_section(fd, response, '#', ...)
FirmwareStopChar == "#"

\* get_pmc8_main_firmware(fd, info)
MainFirmware(simulation, writeOk, stream) ==
    LET rd       == tty_read_section(stream, FirmwareStopChar)
        sent     == IF simulation THEN <<>> ELSE <<"ESGv!">>
        response == IF simulation THEN PMC8_SIMUL_VERSION_RESP ELSE rd.buf
        fail     == [wire |-> sent, rc |-> FALSE, MainBoardFirmware |-> <<>>]
    IN  IF ~simulation /\ ~writeOk THEN fail
        ELSE IF ~simulation /\ ~rd.ok THEN fail
        ELSE IF Len(response) > 0 /\ Len(response) = 13
        THEN [wire |-> sent, rc |-> TRUE, MainBoardFirmware |-> SubSeq(response, 7, 12)]
        ELSE fail

InitFirmware ==
    /\ CallInit
    /\ args \in [pmc8_simulation : BOOLEAN, writeOk : BOOLEAN, stream : ReplySamples]

get_pmc8_main_firmware ==
    /\ Returns("get_pmc8_main_firmware")
    /\ LET r == MainFirmware(args.pmc8_simulation, args.writeOk, args.stream)
       IN  /\ wire' = r.wire
           /\ rc' = r.rc
           /\ ret' = [MainBoardFirmware |-> r.MainBoardFirmware]

NextFirmware == get_pmc8_main_firmware

SpecFirmware == InitFirmware /\ [][NextFirmware]_vars

\* the reply ESGvES06B9T9!
IdentifyReply == PMC8_SIMUL_VERSION_RESP \o <<"!">>

\* C21: when the mount, real or simulated, answers ESGv! with ESGvES06B9T9!,
\* get_pmc8_main_firmware succeeds and reports the board 06B9T9.
C21_IdentifyBoard ==
    (pc = "done" /\ lastOp = "get_pmc8_main_firmware"
        /\ args.writeOk /\ args.stream = IdentifyReply) =>
            rc /\ ret.MainBoardFirmware = <<"0", "6", "B", "9", "T", "9">>

-----------------------------------------------------------------------------
(* SpecSlew: one call of slew_pmc8(fd, ra, dec) at local sidereal time lst. *)
(* args.fail is the exchange of set_pmc8_target_position that fails        *)
(* (0: none, 1: the RA axis, 2: the Dec axis).                             *)

\* set_pmc8_target_position_axis: snprintf(cmd, sizeof(cmd), "ESPt%d%s!", axis, hexpt)
TargetFrame(axis, point) ==
    "ESPt" \o AxisDigit(axis) \o CString(convert_motor_counts_to_hex(point)) \o "!"

\* both axes are written whatever the first exchange returned
set_pmc8_target_position_NoReturn(rapoint, decpoint, fail) ==
    [wire |-> <<TargetFrame("PMC8_RA_AXIS", rapoint), TargetFrame("PMC8_DEC_AXIS", decpoint)>>,
     rc   |-> fail = 0]

\* set_pmc8_target_position(fd, rapoint, decpoint)
set_pmc8_target_position(rapoint, decpoint, fail) ==
    IF fail = 1
    THEN [wire |-> <<TargetFrame("PMC8_RA_AXIS", rapoint)>>, rc |-> FALSE]
    ELSE [wire |-> <<TargetFrame("PMC8_RA_AXIS", rapoint),
                     TargetFrame("PMC8_DEC_AXIS", decpoint)>>,
          rc   |-> fail = 0]

InitSlew ==
    /\ pc = "call"
    /\ HexIdle
    /\ APInitial
    /\ trackMode = TRACK_SIDEREAL
    /\ initRA = 0 /\ initDEC = 0 /\ guideSpeed = 0
    /\ failing = {} /\ versionString = <<>>
    /\ jog = <<>>
    /\ ret = <<>>
    /\ args \in [fail : 0..2]
    /\ ra \in RASamples
    /\ dec \in DecSamples
    /\ lst \in LSTSamples
    /\ sop = PIER_UNKNOWN
    /\ destsop = PIER_UNKNOWN
    /\ racounts = 0 /\ deccounts = 0 /\ ra_value = 0 /\ dec_value = 0

\* slew_pmc8(fd, ra, dec); destSideOfPier returns EAST or WEST, so neither
\* conversion fails
slew_pmc8 ==
    /\ pc = "call"
    /\ pc' = "done"
    /\ Called("slew_pmc8")
    /\ LET s == destSideOfPier(ra, lst)
           r == convert_ra_to_motor(ra, s, lst)
           d == convert_dec_to_motor(dec, s)
           t == set_pmc8_target_position(r, d, args.fail)
       IN  /\ sop' = s
           /\ destsop' = s
           /\ racounts' = r
           /\ deccounts' = d
           /\ wire' = t.wire
           /\ rc' = t.rc
    /\ UNCHANGED <<hexVars, auxVars, ra, dec, lst, ra_value, dec_value, motionSince,
                   connected, TrackState, EqNP_s, timeUpdated, locationUpdated,
                   mountInitialized, mountParked, motionCommanded, firmwareVersion,
                   trackMode, lastRA, lastDE, lastAZ, lastAL, polls, locThisSession>>

NextSlew == slew_pmc8

SpecSlew == InitSlew /\ [][NextSlew]_vars

\* slew_pmc8 has returned for LST = 10 h, RA = 4 h, Dec = +45 degrees
SlewScenario ==
    /\ pc = "done" /\ lastOp = "slew_pmc8"
    /\ lst = 10 * HourUnits /\ ra = 4 * HourUnits /\ dec = 45 * DegUnits

\* C22 as stated: the scenario picks EAST, ra_counts = 0, dec_counts =
\* -576000 and issues ESPt0000000! then ESPt1F71000!.
C22_SlewFramesAsStated ==
    (SlewScenario /\ args.fail = 0) =>
        /\ destsop = PIER_EAST /\ racounts = 0 /\ deccounts = 0 - 576000
        /\ wire = <<"ESPt0000000!", "ESPt1F71000!">>

\* C22: the scenario picks EAST, ra_counts = 0, dec_counts = -576000 and
\* issues ESPt0000000! then ESPt1F73600! (the two's complement of -576000),
\* the Dec frame only when the RA exchange succeeded.
C22_SlewFrames ==
    SlewScenario =>
        /\ destsop = PIER_EAST /\ racounts = 0 /\ deccounts = 0 - 576000
        /\ wire = IF args.fail = 1 THEN <<"ESPt0000000!">>
                  ELSE <<"ESPt0000000!", "ESPt1F73600!">>
        /\ rc = (args.fail = 0)

C22_Witness == SlewScenario /\ args.fail = 1 /\ ~rc

-----------------------------------------------------------------------------
(* SpecTrackRate: one call of set_pmc8_custom_ra_track_rate(fd, rate) or   *)
(* of set_pmc8_track_mode(fd, mode), out of simulation.  Rates are in      *)
(* arcsec/s, RateUnits units to one arcsec/s.  args.fail is the exchange   *)
(* that fails (0: none, 1: the rate frame, 2: the direction frame).        *)

\* a decimal rate literal of the code, given in thousandths
Milli(m) == (m * RateUnits) \div 1000

\* the value is rounded to nearest instead of truncated
convert_precise_rate_to_motor_Rounded(rate) ==
    LET n     == 25 * rate * ScaleNum
        d     == ScaleDen * RateUnits
        mrate == IF n >= 0 THEN (2 * n + d) \div (2 * d) ELSE 0 - ((2 * (0 - n) + d) \div (2 * d))
    IN  IF mrate > PMC8_MAX_PRECISE_MOTOR_RATE THEN PMC8_MAX_PRECISE_MOTOR_RATE
        ELSE IF mrate < 0 - PMC8_MAX_PRECISE_MOTOR_RATE THEN 0 - PMC8_MAX_PRECISE_MOTOR_RATE
        ELSE mrate

\* *mrate = (int)(25*rate*(PMC8_AXIS0_SCALE/ARCSEC_IN_CIRCLE)), clamped
convert_precise_rate_to_motor(rate) ==
    LET mrate == TruncDiv(25 * rate * ScaleNum, ScaleDen * RateUnits)
    IN  IF mrate > PMC8_MAX_PRECISE_MOTOR_RATE THEN PMC8_MAX_PRECISE_MOTOR_RATE
        ELSE IF mrate < 0 - PMC8_MAX_PRECISE_MOTOR_RATE THEN 0 - PMC8_MAX_PRECISE_MOTOR_RATE
        ELSE mrate

\* set_pmc8_custom_ra_track_rate: snprintf(cmd, sizeof(cmd), "ESTr%04X!", rateval)
PreciseRateHex(rateval) == Sprintf04X(rateval)

PreciseRateFrame(rateval) == "ESTr" \o CString(PreciseRateHex(rateval)) \o "!"

\* strlen(cmd) of the precise-rate frame
PreciseRateFrameLen(rateval) == 4 + Len(PreciseRateHex(rateval)) + 1

\* set_pmc8_custom_ra_track_rate(fd, rate): tty_read reads strlen(cmd)
\* bytes of echo, and a count other than 9 is an error
custom_ra_track_rate(rate, fail) ==
    LET rateval == convert_precise_rate_to_motor(rate)
        cmd     == PreciseRateFrame(rateval)
    IN  IF fail = 1 \/ PreciseRateFrameLen(rateval) # 9
        THEN [wire |-> <<cmd>>, rc |-> FALSE, rateval |-> rateval]
        ELSE [wire |-> <<cmd, SetDirectionFrame("PMC8_RA_AXIS", "1")>>,
              rc |-> fail = 0, rateval |-> rateval]

PreciseRateBases == {0, Milli(14453), 15 * RateUnits, Milli(15041), Milli(29711), 40 * RateUnits}

PreciseRateSamples ==
    {b + o : b \in PreciseRateBases, o \in Offsets}
        \cup {0 - (b + o) : b \in PreciseRateBases, o \in Offsets}

TrackRateModes == {"PMC8_TRACK_SIDEREAL", "PMC8_TRACK_LUNAR", "PMC8_TRACK_SOLAR",
                   "PMC8_TRACK_CUSTOM"}

\* set_pmc8_track_mode: the values ratereal can hold after the switch; no
\* case assigns it for any other mode, and it is read uninitialised
ratereal(mode) ==
    CASE mode = "PMC8_TRACK_SIDEREAL" -> {15 * RateUnits}
      [] mode = "PMC8_TRACK_LUNAR"    -> {Milli(14453)}
      [] mode = "PMC8_TRACK_SOLAR"    -> {Milli(15041)}
      [] OTHER                        -> PreciseRateSamples

InitTrackRate ==
    /\ CallInit
    /\ args \in [rate : PreciseRateSamples, mode : TrackRateModes, fail : 0..2]

set_pmc8_custom_ra_track_rate ==
    /\ Returns("set_pmc8_custom_ra_track_rate")
    /\ LET r == custom_ra_track_rate(args.rate, args.fail)
       IN  /\ wire' = r.wire
           /\ rc' = r.rc
           /\ ret' = [rate |-> args.rate, rateval |-> r.rateval]

set_pmc8_track_mode ==
    /\ Returns("set_pmc8_track_mode")
    /\ \E rr \in ratereal(args.mode) :
          LET r == custom_ra_track_rate(rr, args.fail)
          IN  /\ wire' = r.wire
              /\ rc' = r.rc
              /\ ret' = [rate |-> rr, rateval |-> r.rateval]

NextTrackRate == set_pmc8_custom_ra_track_rate \/ set_pmc8_track_mode

SpecTrackRate == InitTrackRate /\ [][NextTrackRate]_vars

\* C23: the precise motor rate of every requested RA tracking rate is
\* round(25 * rate * 4608000 / 1296000) clamped to [-2641, +2641], rounded
\* to nearest and not truncated.
C23_PreciseRateRounded ==
    (pc = "done" /\ lastOp = "set_pmc8_custom_ra_track_rate") =>
        ret.rateval = convert_precise_rate_to_motor_Rounded(args.rate)

\* C25: every precise-rate frame is ESTr, exactly 4 uppercase hex digits
\* and '!' (9 bytes), for every motor rate in [-2641, +2641], negative ones
\* included.
C25_PreciseFrameShape ==
    (pc = "done" /\ lastOp = "set_pmc8_custom_ra_track_rate") =>
        /\ ret.rateval \in (0 - PMC8_MAX_PRECISE_MOTOR_RATE) .. PMC8_MAX_PRECISE_MOTOR_RATE
        /\ Len(PreciseRateHex(ret.rateval)) = 4
        /\ \A i \in 1..4 : \E k \in 1..16 : HexChars[k] = PreciseRateHex(ret.rateval)[i]
        /\ wire[1] = PreciseRateFrame(ret.rateval)
        /\ PreciseRateFrameLen(ret.rateval) = 9

\* C26: set_pmc8_track_mode programs 15.04106864 arcsec/s for SIDEREAL,
\* 14.453 for LUNAR and 15.000 for SOLAR.
C26_TrackModeRates ==
    (pc = "done" /\ lastOp = "set_pmc8_track_mode") =>
        /\ args.mode = "PMC8_TRACK_SIDEREAL" =>
              ret.rateval = convert_precise_rate_to_motor(Milli(15041))
        /\ args.mode = "PMC8_TRACK_LUNAR" =>
              ret.rateval = convert_precise_rate_to_motor(Milli(14453))
        /\ args.mode = "PMC8_TRACK_SOLAR" =>
              ret.rateval = convert_precise_rate_to_motor(15 * RateUnits)

-----------------------------------------------------------------------------
(* SpecMoveRate: one call of set_pmc8_custom_ra_move_rate(fd, rate), out   *)
(* of simulation; args.fails are the exchanges that fail.                  *)

MoveRateBases == {0, Milli(150), 60 * RateUnits, 240 * RateUnits, 960 * RateUnits,
                  1080 * RateUnits, PMC8_MAX_MOVE_MOTOR_RATE * RateUnits,
                  4000 * RateUnits}

MoveRateSamples ==
    {b + o : b \in MoveRateBases, o \in Offsets}
        \cup {0 - (b + o) : b \in MoveRateBases, o \in Offsets}

\* set_pmc8_custom_ra_move_rate: if (fabs(rate) > PMC8_MAX_MOVE_MOTOR_RATE) return false
MoveRateRejected(rate) == Abs(rate) > PMC8_MAX_MOVE_MOTOR_RATE * RateUnits

InitMoveRate ==
    /\ CallInit
    /\ args \in [rate : MoveRateSamples, fails : SUBSET {"ESSd", "ESSr"}]

\* set_pmc8_custom_ra_move_rate(fd, rate); ret.mrate is the motor rate put
\* into the frame, with the sign of the direction frame
set_pmc8_custom_ra_move_rate ==
    /\ Returns("set_pmc8_custom_ra_move_rate")
    /\ IF MoveRateRejected(args.rate)
       THEN /\ wire' = <<>>
            /\ rc' = FALSE
            /\ ret' = [sent |-> FALSE, mrate |-> 0]
       ELSE /\ wire' = set_pmc8_axis_move_rate("PMC8_RA_AXIS", args.rate, args.fails)
            /\ rc' = (args.fails = {})
            /\ ret' = [sent  |-> "ESSd" \notin args.fails,
                       mrate |-> IF args.rate < 0
                                 THEN 0 - convert_move_rate_to_motor(Abs(args.rate))
                                 ELSE convert_move_rate_to_motor(Abs(args.rate))]

NextMoveRate == set_pmc8_custom_ra_move_rate

SpecMoveRate == InitMoveRate /\ [][NextMoveRate]_vars

\* round(rate * PMC8_AXIS0_SCALE / ARCSEC_IN_CIRCLE) clamped to the move ceiling
MoveRateRounded(rate) ==
    LET n     == Abs(rate) * ScaleNum
        d     == ScaleDen * RateUnits
        m     == (2 * n + d) \div (2 * d)
        mrate == IF m > PMC8_MAX_MOVE_MOTOR_RATE THEN PMC8_MAX_MOVE_MOTOR_RATE ELSE m
    IN  IF rate < 0 THEN 0 - mrate ELSE mrate

\* C24: the move motor rate of every requested rate is round(rate * 4608000
\* / 1296000) clamped to [-3840, +3840], and a rate beyond the ceiling is
\* clamped and still sent, not rejected.
C24_MoveRateClamped ==
    (pc = "done" /\ lastOp = "set_pmc8_custom_ra_move_rate" /\ args.fails = {}) =>
        /\ rc
        /\ ret.sent
        /\ ret.mrate = MoveRateRounded(args.rate)

-----------------------------------------------------------------------------
(* SpecTrackRateAP: one call of LX200AstroPhysics::SetTrackRate(raRate,    *)
(* deRate), out of simulation.  Rates are in arcsec/s and multipliers in   *)
(* sidereal rates, both with TrackRateUnits units to one.  args.fail is    *)
(* the exchange that fails (0: none, 1: :RR, 2: :RD).                      *)

\* a decimal literal given in ten-thousandths
TenThousandths(m) ==
    (m \div 10000) * TrackRateUnits + ((m % 10000) * TrackRateUnits) \div 10000

\* TRACKRATE_SIDEREAL, 15.04106864 arcsec/s, to four decimals
TRACKRATE_SIDEREAL == TenThousandths(150411)

\* x / TRACKRATE_SIDEREAL as a multiplier, truncated to one unit
SiderealMultiplier(x) ==
    LET a == Abs(x)
        q == a \div TRACKRATE_SIDEREAL
        r == a % TRACKRATE_SIDEREAL
        m == q * TrackRateUnits + (r * TrackRateUnits) \div TRACKRATE_SIDEREAL
    IN  IF x < 0 THEN 0 - m ELSE m

\* TrackRateN[AXIS_RA].max and TrackRateN[AXIS_DE].max
TrackRateRAMax == TenThousandths(150260258)
TrackRateDEMax == TenThousandths(9989999)


\* SetTrackRate: APRARate = (raRate - TRACKRATE_SIDEREAL) / TRACKRATE_SIDEREAL,
\* APDERate = deRate / TRACKRATE_SIDEREAL, for x the numerator
APRate(x) == SiderealMultiplier(x)

RARateSamples ==
    {s * b + o : s \in {1, 0 - 1},
                 b \in {0, TRACKRATE_SIDEREAL, TenThousandths(300820), TrackRateRAMax,
                        20000 * TrackRateUnits},
                 o \in Offsets}

DERateSamples == {0, TRACKRATE_SIDEREAL, 0 - TrackRateDEMax, TrackRateDEMax,
                  20000 * TrackRateUnits}

InitTrackRateAP ==
    /\ CallInit
    /\ args \in [raRate : RARateSamples, deRate : DERateSamples, fail : 0..2]

\* SetTrackRate(raRate, deRate); ret holds the values handed to
\* setAPRATrackRate and setAPDETrackRate
SetTrackRate ==
    /\ Returns("SetTrackRate")
    /\ wire' = Sent(<<":RR", ":RD">>, args.fail)
    /\ rc' = (args.fail = 0)
    /\ ret' = [APRARate |-> APRate(args.raRate - TRACKRATE_SIDEREAL),
               APDERate |-> APRate(args.deRate)]

NextTrackRateAP == SetTrackRate

SpecTrackRateAP == InitTrackRateAP /\ [][NextTrackRateAP]_vars

\* C27: the RA and Dec multipliers SetTrackRate puts on the wire lie in
\* [-998.9999, +998.9999] for every input.
C27_MultipliersClamped ==
    (pc = "done" /\ lastOp = "SetTrackRate") =>
        /\ ret.APRARate \in (0 - TrackRateDEMax) .. TrackRateDEMax
        /\ ret.APDERate \in (0 - TrackRateDEMax) .. TrackRateDEMax

-----------------------------------------------------------------------------
(* SpecLocation: one call of updateLocation(latitude, longitude,           *)
(* elevation) on a connected mount.  Longitudes are in arc-seconds,        *)
(* ArcsecUnits units to one.  args.fail is the exchange that fails         *)
(* (0: none, 1: the longitude, 2: the latitude).                           *)

DegreeArcsec == 3600 * ArcsecUnits

LongitudeSamples ==
    {d * DegreeArcsec + o : d \in {0, 1, 90, 180, 270, 359}, o \in 0..(2 * ArcsecUnits)}
        \cup {360 * DegreeArcsec - o : o \in 1..(2 * ArcsecUnits)}

\* the longitude is passed on east-positive as it came
SiteLongitude_East(longitude) == longitude

\* setAPSiteLongitude(PortFD, 360.0 - longitude)
SiteLongitude(longitude) == 360 * DegreeArcsec - longitude

\* the sexagesimal fields DDD*MM:SS of the longitude frame
Sexagesimal(x) ==
    [d |-> x \div DegreeArcsec,
     m |-> (x \div (60 * ArcsecUnits)) % 60,
     s |-> (x \div ArcsecUnits) % 60]

InitLocation ==
    /\ pc = "call"
    /\ HexIdle
    /\ CoordIdle
    /\ connected = TRUE
    /\ TrackState = SCOPE_IDLE
    /\ prevState = SCOPE_IDLE
    /\ EqNP_s = IPS_IDLE
    /\ timeUpdated \in BOOLEAN
    /\ locationUpdated = FALSE /\ locThisSession = FALSE
    /\ mountInitialized = FALSE /\ mountParked = FALSE
    /\ motionCommanded = FALSE
    /\ firmwareVersion = MCV_T
    /\ trackMode = TRACK_SIDEREAL
    /\ lastRA = 0 /\ lastDE = 0 /\ lastAZ = 0 /\ lastAL = 0
    /\ wire = <<>> /\ lastOp = "none" /\ rc = TRUE /\ polls = 0
    /\ motionSince = FALSE
    /\ initRA = 0 /\ initDEC = 0 /\ guideSpeed = 0
    /\ failing = {} /\ versionString = <<>>
    /\ jog = <<>>
    /\ ret = <<>>
    /\ args \in [longitude : LongitudeSamples, fail : 0..2]

\* updateLocation(latitude, longitude, elevation); ret.Long is the frame
\* setAPSiteLongitude writes
updateLocationCall ==
    /\ pc = "call"
    /\ pc' = "done"
    /\ Called("updateLocation")
    /\ updateLocationBody(args.fail)
    /\ ret' = [Long |-> Sexagesimal(SiteLongitude(args.longitude))]
    /\ polls' = PollsAfter(TrackState', polls)
    /\ UNCHANGED <<hexVars, coordVars, initRA, initDEC, guideSpeed, failing,
                   versionString, jog, args, motionSince, connected, EqNP_s,
                   timeUpdated, motionCommanded, firmwareVersion, trackMode,
                   lastRA, lastDE, lastAZ, lastAL>>

NextLocation == updateLocationCall

SpecLocation == InitLocation /\ [][NextLocation]_vars

\* the east longitude a longitude frame stands for, in arc-seconds
DecodeLongitude(f) == 360 * 3600 - (f.d * 3600 + f.m * 60 + f.s)

\* C28: updateLocation transmits the longitude as 360 - lon_east before the
\* latitude, decoding the frame (360 - wire) recovers lon_east within one
\* arc-second, and when the longitude exchange fails the latitude is not
\* sent and locationUpdated is not raised.
C28_LongitudeFrame ==
    (pc = "done" /\ lastOp = "updateLocation") =>
        /\ wire[1] = ":Sg"
        /\ \A i \in DOMAIN wire : wire[i] = ":St" => i = 2
        /\ args.fail # 1 => Has(wire, ":St")
        /\ Abs(DecodeLongitude(ret.Long) * ArcsecUnits - args.longitude) <= ArcsecUnits
        /\ args.fail = 1 => (~Has(wire, ":St") /\ ~locationUpdated /\ ~rc)

\* the longitude exchange failed for a longitude that is no whole arc-second
C28_Witness ==
    /\ pc = "done" /\ lastOp = "updateLocation"
    /\ args.fail = 1
    /\ args.longitude = 90 * DegreeArcsec + 1
    /\ wire = <<":Sg">>

-----------------------------------------------------------------------------
(* SpecFlush: the PMC8 codec on its transport.  ret.input is the input     *)
(* buffer of the serial line, holding for each reply the number of the     *)
(* command it answers; ret.n counts the commands written; ret.answers      *)
(* pairs each command of the last call with the reply tty_read took for    *)
(* it.  wire lists the transport calls of the last function: "tcflush",    *)
(* "tty_read", and a write by the name of its frame.  A reply comes in     *)
(* time, after the read timed out but before the next call, or never.      *)

ReplyTimings == {"in time", "late", "never"}

\* the input buffer is left as it is
tcflush_Nothing(input) == input

\* tcflush(fd, TCIFLUSH)
tcflush(input) == <<>>

\* one command and its response: tcflush, tty_write, tty_read
CommandPair(st, frame, writeOk, timing) ==
    LET cmd     == st.n + 1
        flushed == tcflush(st.input)
        pending == IF timing = "in time" THEN flushed \o <<cmd>> ELSE flushed
        arrived == IF timing = "late" THEN <<cmd>> ELSE <<>>
    IN  IF ~writeOk
        THEN [ok |-> FALSE, events |-> <<"tcflush", frame>>, answers |-> <<>>,
              st |-> [input |-> flushed, n |-> st.n]]
        ELSE IF pending = <<>>
        THEN [ok |-> FALSE, events |-> <<"tcflush", frame, "tty_read">>, answers |-> <<>>,
              st |-> [input |-> arrived, n |-> cmd]]
        ELSE [ok |-> TRUE, events |-> <<"tcflush", frame, "tty_read">>,
              answers |-> <<[command |-> cmd, reply |-> Head(pending)]>>,
              st |-> [input |-> Tail(pending) \o arrived, n |-> cmd]]

InitFlush ==
    /\ pc = "pmc"
    /\ HexIdle
    /\ CoordIdle
    /\ APInitial
    /\ trackMode = TRACK_SIDEREAL
    /\ initRA = 0 /\ initDEC = 0 /\ guideSpeed = 0
    /\ failing = {} /\ versionString = <<>>
    /\ jog = <<>>
    /\ args = <<>>
    /\ ret = [input |-> <<>>, n |-> 0, answers |-> <<>>]

\* what a codec function leaves alone
CodecFrame ==
    UNCHANGED <<pc, hexVars, coordVars, initRA, initDEC, guideSpeed, failing,
                versionString, jog, args, motionSince, connected, TrackState,
                EqNP_s, timeUpdated, locationUpdated, mountInitialized, mountParked,
                motionCommanded, firmwareVersion, trackMode, lastRA, lastDE, lastAZ,
                lastAL, polls, locThisSession>>

\* a function made of one command pair
OnePair(op, frame) ==
    /\ pc = "pmc"
    /\ ret.n < MaxCommands
    /\ Called(op)
    /\ \E axis \in {"PMC8_RA_AXIS", "PMC8_DEC_AXIS"}, writeOk \in BOOLEAN,
          timing \in ReplyTimings :
          LET p == CommandPair([input |-> ret.input, n |-> ret.n],
                               frame \o AxisDigit(axis), writeOk, timing)
          IN  /\ wire' = p.events
              /\ rc' = p.ok
              /\ ret' = [input |-> p.st.input, n |-> p.st.n, answers |-> p.answers]
    /\ CodecFrame

\* set_pmc8_target_position_axis(fd, axis, point)
set_pmc8_target_position_axis == OnePair("set_pmc8_target_position_axis", "ESPt")

\* get_pmc8_position_axis(fd, axis, point)
get_pmc8_position_axis == OnePair("get_pmc8_position_axis", "ESGp")

\* set_pmc8_axis_move_rate(fd, axis, rate): set_pmc8_direction_axis, then
\* the rate frame, then a last tcflush
set_pmc8_axis_move_rate_call ==
    /\ pc = "pmc"
    /\ ret.n + 1 < MaxCommands
    /\ Called("set_pmc8_axis_move_rate")
    /\ \E axis \in {"PMC8_RA_AXIS", "PMC8_DEC_AXIS"},
          w1 \in BOOLEAN, t1 \in ReplyTimings, w2 \in BOOLEAN, t2 \in ReplyTimings :
          LET p1 == CommandPair([input |-> ret.input, n |-> ret.n],
                                "ESSd" \o AxisDigit(axis), w1, t1)
              p2 == CommandPair(p1.st, "ESSr" \o AxisDigit(axis), w2, t2)
          IN  IF ~p1.ok
              THEN /\ wire' = p1.events
                   /\ rc' = FALSE
                   /\ ret' = [input |-> p1.st.input, n |-> p1.st.n, answers |-> p1.answers]
              ELSE IF ~p2.ok
              THEN /\ wire' = p1.events \o p2.events
                   /\ rc' = FALSE
                   /\ ret' = [input |-> p2.st.input, n |-> p2.st.n,
                              answers |-> p1.answers \o p2.answers]
              ELSE /\ wire' = p1.events \o p2.events \o <<"tcflush">>
                   /\ rc' = TRUE
                   /\ ret' = [input |-> tcflush(p2.st.input), n |-> p2.st.n,
                              answers |-> p1.answers \o p2.answers]
    /\ CodecFrame

NextFlush ==
    \/ set_pmc8_target_position_axis
    \/ get_pmc8_position_axis
    \/ set_pmc8_axis_move_rate_call

SpecFlush == InitFlush /\ [][NextFlush]_vars

\* C29: every command frame the PMC codec writes is immediately preceded by
\* an input flush, and the reply taken for a command is never a reply left
\* over from an earlier command that timed out.
C29_FlushBeforeWrite ==
    pc = "pmc" =>
        /\ \A i \in DOMAIN wire :
              wire[i] \notin {"tcflush", "tty_read"} => (i > 1 /\ wire[i - 1] = "tcflush")
        /\ \A k \in DOMAIN ret.answers : ret.answers[k].reply = ret.answers[k].command

\* a command is answered although the reply of the command before it was
\* left over in the input buffer
C29_Witness ==
    /\ pc = "pmc" /\ rc
    /\ lastOp = "get_pmc8_position_axis"
    /\ ret.n = 2 /\ ret.answers = <<[command |-> 2, reply |-> 2]>>
    /\ prevState = SCOPE_IDLE

-----------------------------------------------------------------------------
(* SpecVersion: one call of LX200AstroPhysics::getFirmwareVersion(), out   *)
(* of simulation.  args.versionString is the reply to :V#; when the read   *)
(* fails (args.readOk = FALSE) the buffer is not written and holds         *)
(* anything.  ret holds servoType and the value returned.                  *)

VersionLetters == {VersionChars[i] : i \in DOMAIN VersionChars}

VersionReplies ==
    {<<a>> : a \in VersionLetters}
        \cup {<<a, b>> : a \in VersionLetters, b \in {"0", "1"}}
        \cup {<<"V", "C", "P", "4", "-", "P", "0", "1", "-", "0", "1">>,
              <<"V", "C", "P", "4">>, <<"V", "1", "0">>, <<>>}

\* getFirmwareVersion: servoType after reply v, st being its value before
servoTypeAfter(v, st) ==
    IF Strstr(v, <<"V", "C", "P", "4">>) THEN "GTOCP4"
    ELSE IF getFirmwareVersion(v, MCV_UNKNOWN).success
         THEN (IF getFirmwareVersion(v, MCV_UNKNOWN).fw < MCV_G THEN "GTOCP2" ELSE "GTOCP3")
         ELSE st

InitVersion ==
    /\ CallInit
    /\ args \in [versionString : VersionReplies, readOk : BOOLEAN]

getFirmwareVersionCall ==
    /\ pc = "call"
    /\ pc' = "done"
    /\ Called("getFirmwareVersion")
    /\ wire' = <<":V#">>
    /\ \E v \in (IF args.readOk THEN {args.versionString} ELSE VersionReplies) :
          LET r == getFirmwareVersion(v, firmwareVersion)
          IN  /\ firmwareVersion' = r.fw
              /\ rc' = r.success
              /\ ret' = [versionString |-> v,
                         servoType |-> servoTypeAfter(v, "GTOCP_UNKNOWN")]
    /\ UNCHANGED <<hexVars, coordVars, initRA, initDEC, guideSpeed, failing,
                   versionString, jog, args, motionSince, connected, TrackState,
                   EqNP_s, timeUpdated, locationUpdated, mountInitialized, mountParked,
                   motionCommanded, trackMode, lastRA, lastDE, lastAZ, lastAL, polls,
                   locThisSession>>

NextVersion == getFirmwareVersionCall

SpecVersion == InitVersion /\ [][NextVersion]_vars

\* the first letter of reply v is one of E..V
FirstLetterEtoV(v) ==
    Len(v) \in {1, 2} /\ Ascii(v[1]) >= Ascii("E") /\ Ascii(v[1]) <= Ascii("V")

\* C30: a reply containing VCP4 gives firmware V and servo GTOCP4; a one- or
\* two-character reply whose first letter is in E..V gives that letter, with
\* GTOCP2 for E and F and GTOCP3 for G..V; any other reply is not accepted,
\* and the firmware stored is always one of E..V or UNKNOWN.
C30_FirmwareMapping ==
    (pc = "done" /\ lastOp = "getFirmwareVersion") =>
        LET v == ret.versionString
        IN  /\ firmwareVersion \in MCV_E..MCV_UNKNOWN
            /\ IF Strstr(v, <<"V", "C", "P", "4">>)
               THEN rc /\ firmwareVersion = MCV_V /\ ret.servoType = "GTOCP4"
               ELSE IF FirstLetterEtoV(v)
               THEN /\ rc
                    /\ firmwareVersion = Ascii(v[1]) - Ascii("E")
                    /\ ret.servoType = IF v[1] \in {"E", "F"} THEN "GTOCP2" ELSE "GTOCP3"
               ELSE ~rc /\ firmwareVersion = MCV_UNKNOWN

-----------------------------------------------------------------------------
\* C31: start_pmc8_motion returns success only if the direction frame and the
\* rate frame it issued for the requested direction were acknowledged; when
\* setting the axis move rate fails, it returns failure.
C31_MotionFailureSurfaces ==
    (pc = "done" /\ lastOp = "start_pmc8_motion" /\ rc
        /\ convert_movespeedindex_to_rate(jog.mode) # 0) =>
            failing \cap {"ESSd", "ESSr"} = {}

-----------------------------------------------------------------------------
(* SpecRadec: one call of set_pmc8_radec(fd, ra, dec) at local sidereal    *)
(* time lst, out of simulation, with args.fail as in SpecSlew.             *)

\* convert_dec_to_motor(ra, sop, &deccounts) of set_pmc8_radec: the double
\* holding ra, a number of hours, is taken as a number of degrees, so that
\* *mcounts = ((ra - 90) / 360.0) * PMC8_AXIS1_SCALE on the east side
convert_dec_to_motor_of_ra(r, s) ==
    LET motor_angle == IF s = PIER_EAST THEN r - 90 * HourUnits
                       ELSE 0 - (r - 90 * HourUnits)
    IN  TruncDiv(motor_angle, HourUnits \div (PMC8_AXIS1_SCALE \div 360))

\* set_pmc8_radec(fd, ra, dec)
set_pmc8_radec ==
    /\ pc = "call"
    /\ pc' = "done"
    /\ Called("set_pmc8_radec")
    /\ LET s == destSideOfPier(ra, lst)
           r == convert_ra_to_motor(ra, s, lst)
           d == convert_dec_to_motor_of_ra(ra, s)
           t == set_pmc8_target_position(r, d, args.fail)
       IN  /\ sop' = s
           /\ destsop' = s
           /\ racounts' = r
           /\ deccounts' = d
           /\ wire' = t.wire
           /\ rc' = t.rc
    /\ UNCHANGED <<hexVars, auxVars, ra, dec, lst, ra_value, dec_value, motionSince,
                   connected, TrackState, EqNP_s, timeUpdated, locationUpdated,
                   mountInitialized, mountParked, motionCommanded, firmwareVersion,
                   trackMode, lastRA, lastDE, lastAZ, lastAL, polls, locThisSession>>

NextRadec == set_pmc8_radec

SpecRadec == InitSlew /\ [][NextRadec]_vars

\* C32: set_pmc8_radec(ra, dec) programs the RA and Dec target counts, and
\* writes the two ESPt frames, that slew_pmc8(ra, dec) does for the same
\* arguments: the Dec target is computed from dec.
C32_RadecAsSlew ==
    (pc = "done" /\ lastOp = "set_pmc8_radec") =>
        LET s == destSideOfPier(ra, lst)
            r == convert_ra_to_motor(ra, s, lst)
            d == convert_dec_to_motor(dec, s)
        IN  /\ racounts = r
            /\ deccounts = d
            /\ wire = set_pmc8_target_position(r, d, args.fail).wire

-----------------------------------------------------------------------------
\* the motor rate start_pmc8_motion sends for jog index mode
JogMotorRate(mode) ==
    convert_move_rate_to_motor(convert_movespeedindex_to_rate(mode) * RateUnits)

\* the axis start_pmc8_motion moves for direction dir
JogAxis(dir) == IF dir \in {"PMC8_W", "PMC8_E"} THEN "PMC8_RA_AXIS" ELSE "PMC8_DEC_AXIS"

\* C33: jog indices 0..3 stand for 4x, 16x, 64x and 256x of 15 arcsec/s, and
\* the motor rate in the rate frame start_pmc8_motion writes for index i+1 is
\* four times the motor rate written for index i, up to rounding (i = 0, 1, 2).
C33_JogRatesQuadruple ==
    (pc = "done" /\ lastOp = "start_pmc8_motion" /\ rc
        /\ jog.mode \in 1..3 /\ "ESSd" \notin failing) =>
            /\ convert_movespeedindex_to_rate(jog.mode)
                   = 4 * convert_movespeedindex_to_rate(jog.mode - 1)
            /\ convert_movespeedindex_to_rate(0) = 4 * 15
            /\ \E m \in (4 * JogMotorRate(jog.mode - 1) - 4) .. (4 * JogMotorRate(jog.mode - 1) + 4) :
                  wire[Len(wire)] = SetMoveRateFrame(JogAxis(jog.dir), m)

-----------------------------------------------------------------------------
(* SpecPark: one call of LX200AstroPhysics::updateProperties() on a        *)
(* connected mount, or of SetDefaultPark().  args.latitude is              *)
(* LocationN[LOCATION_LATITUDE].value in degrees, args.InitPark what       *)
(* InitPark() returns, args.park the park data held when it has returned,  *)
(* args.hasConfig whether the configuration file holds a site location     *)
(* and args.fail the exchange of updateLocation that fails.  ret is the    *)
(* park data afterwards; rc is what updateLocation returned.               *)

LatitudeSamples == {0 - 45, 0, 45}

ParkData ==
    [Axis1Park : {0, 90}, Axis2Park : {0, 30},
     Axis1ParkDefault : {0}, Axis2ParkDefault : {0, 30}]

\* LocationN[LOCATION_LATITUDE].value >= 0 ? 0 : 180
ParkAzConnect(latitude) == IF latitude >= 0 THEN 0 ELSE 180

\* updateProperties: the park data after the InitPark() branches
updatePropertiesPark(latitude, loaded, p) ==
    IF loaded
    THEN [p EXCEPT !.Axis1ParkDefault = ParkAzConnect(latitude),
                   !.Axis2ParkDefault = latitude]
    ELSE LET p1 == [p  EXCEPT !.Axis1Park = ParkAzConnect(latitude)]
             p2 == [p1 EXCEPT !.Axis1ParkDefault = latitude]
             p3 == [p2 EXCEPT !.Axis1ParkDefault = ParkAzConnect(latitude)]
         IN  [p3 EXCEPT !.Axis2ParkDefault = latitude]

\* SetDefaultPark: the park data afterwards
SetDefaultParkData(latitude, p) ==
    [p EXCEPT !.Axis1Park = IF latitude > 0 THEN 0 ELSE 180,
              !.Axis2Park = latitude]

InitProperties ==
    /\ pc = "call"
    /\ HexIdle
    /\ CoordIdle
    /\ connected = TRUE
    /\ TrackState = SCOPE_IDLE
    /\ prevState = SCOPE_IDLE
    /\ EqNP_s = IPS_IDLE
    /\ timeUpdated \in BOOLEAN
    /\ locationUpdated = FALSE /\ locThisSession = FALSE
    /\ mountInitialized = FALSE /\ mountParked = FALSE
    /\ motionCommanded = FALSE
    /\ firmwareVersion = MCV_T
    /\ trackMode = TRACK_SIDEREAL
    /\ lastRA = 0 /\ lastDE = 0 /\ lastAZ = 0 /\ lastAL = 0
    /\ wire = <<>> /\ lastOp = "none" /\ rc = TRUE /\ polls = 0
    /\ motionSince = FALSE
    /\ initRA = 0 /\ initDEC = 0 /\ guideSpeed = 0
    /\ failing = {} /\ versionString = <<>>
    /\ jog = <<>>
    /\ ret = <<>>
    /\ args \in [latitude : LatitudeSamples, InitPark : BOOLEAN, park : ParkData,
                 hasConfig : BOOLEAN, fail : 0..2]

\* updateProperties() with isConnected() true
updateProperties ==
    /\ pc = "call"
    /\ pc' = "done"
    /\ Called("updateProperties")
    /\ ret' = updatePropertiesPark(args.latitude, args.InitPark, args.park)
    /\ IF args.hasConfig
       THEN updateLocationBody(args.fail)
       ELSE /\ wire' = <<>>
            /\ UNCHANGED <<rc, locationUpdated, locThisSession, mountInitialized,
                           mountParked, TrackState>>
    /\ polls' = PollsAfter(TrackState', polls)
    /\ UNCHANGED <<hexVars, coordVars, initRA, initDEC, guideSpeed, failing,
                   versionString, jog, args, motionSince, connected, EqNP_s,
                   timeUpdated, motionCommanded, firmwareVersion, trackMode,
                   lastRA, lastDE, lastAZ, lastAL>>

\* SetDefaultPark()
SetDefaultPark ==
    /\ Returns("SetDefaultPark")
    /\ ret' = SetDefaultParkData(args.latitude, args.park)
    /\ wire' = <<>>
    /\ rc' = TRUE

NextPark == updateProperties \/ SetDefaultPark

SpecPark == InitProperties /\ [][NextPark]_vars

\* C34: when the driver connects and no stored park data is found, the park
\* position is the default, Az = 0 (latitude >= 0) or 180 (latitude < 0) and
\* Alt = the site latitude, and the default park values are the same pair.
C34_DefaultParkComplete ==
    (pc = "done" /\ lastOp = "updateProperties" /\ ~args.InitPark) =>
        /\ ret.Axis1Park = (IF args.latitude >= 0 THEN 0 ELSE 180)
        /\ ret.Axis2Park = args.latitude
        /\ ret.Axis1ParkDefault = ret.Axis1Park
        /\ ret.Axis2ParkDefault = ret.Axis2Park

-----------------------------------------------------------------------------
(* SpecMotor: convert_motor_to_radec on the motor counts get_pmc8_position *)
(* can return, any value of the 24-bit signed range for each axis.         *)

\* motor counts of the 24-bit signed range: its ends, one turn, half a turn,
\* a quarter of a turn and the neighbourhood of zero
PositionSamples ==
    {0 - 8388608, 8388607}
        \cup {s * (PMC8_AXIS0_SCALE \div q) + o : s \in {0 - 1, 1}, q \in {1, 2, 4}, o \in {0 - 1, 0, 1}}
        \cup {0 - 1, 0, 1}

InitMotor ==
    /\ pc = "motor"
    /\ HexIdle
    /\ APIdle
    /\ ra = 0 /\ dec = 0
    /\ sop = PIER_UNKNOWN /\ destsop = PIER_UNKNOWN
    /\ racounts \in PositionSamples
    /\ deccounts \in PositionSamples
    /\ lst \in LSTSamples
    /\ ra_value = 0 /\ dec_value = 0

NextMotor == ConvertMotorToRaDec

SpecMotor == InitMotor /\ [][NextMotor]_vars

\* C35: for motor counts in [-2^23, 2^23-1] and an LST in [0,24),
\* convert_motor_to_radec returns an RA in [0,24) and a Dec in [-90,+90].
C35_RaDecInRange ==
    pc = "radec" =>
        /\ 0 <= ra_value /\ ra_value < 24 * HourUnits
        /\ 0 - 90 * DegUnits <= dec_value /\ dec_value <= 90 * DegUnits

-----------------------------------------------------------------------------
\* C36: when initMount fails at any step (position read, park determination,
\* :PO#, move-rate or slew-rate selection) the mount-initialised flag is false
\* afterwards, so that the next update of time or location initialises again.
C36_FailedInitLeavesFlagDown ==
    (pc = "done" /\ lastOp = "initMount" /\ ~rc) => ~mountInitialized

-----------------------------------------------------------------------------
\* C37: a Goto issued during a slew that aborts the running slew (:Q#
\* acknowledged) and then fails to program or start the new target does not
\* leave the driver in SLEWING.
C37_AbortedSlewNotSlewing ==
    (lastOp = "Goto" /\ ~rc /\ Len(wire) >= 2 /\ wire[1] = ":Q#") =>
        TrackState # SCOPE_SLEWING

-----------------------------------------------------------------------------
(* SpecAbort: one call of abort_pmc8(fd), out of simulation.  args.fails   *)
(* holds the exchanges that fail, each an axis and a frame kind, and       *)
(* args.rarate, args.decrate the motor rates of the axes before the call.  *)
(* ret holds the rates afterwards: an axis whose ESSr frame was written    *)
(* runs at the rate of that frame.                                         *)

AbortExchanges == {"PMC8_RA_AXIS", "PMC8_DEC_AXIS"} \X {"ESSd", "ESSr"}

\* the exchanges of axis that fail
AxisFails(axis, fails) == {e[2] : e \in {x \in fails : x[1] = axis}}

\* set_pmc8_custom_ra_move_rate / set_pmc8_custom_dec_move_rate(fd, rate)
\* for a rate within the limit: the frames written and the value returned
custom_move_rate(axis, rate, fails) ==
    [wire |-> set_pmc8_axis_move_rate(axis, rate, AxisFails(axis, fails)),
     rc   |-> AxisFails(axis, fails) = {}]

\* abort_pmc8(fd): the frames written and the value returned
abort_pmc8_frames(fails) ==
    LET r == custom_move_rate("PMC8_RA_AXIS", 0, fails)
        d == custom_move_rate("PMC8_DEC_AXIS", 0, fails)
    IN  IF ~r.rc THEN [wire |-> r.wire, rc |-> FALSE]
        ELSE [wire |-> r.wire \o d.wire, rc |-> d.rc]

\* the frames of w that are in the set s
InWire(w, s) == {i \in DOMAIN w : w[i] \in s} # {}

\* the rate of axis after the frames w, when it ran at rate before
RateAfter(axis, rate, w) ==
    IF InWire(w, {SetMoveRateFrame(axis, 0)}) THEN 0 ELSE rate

InitAbort ==
    /\ CallInit
    /\ args \in [fails : SUBSET AbortExchanges,
                 rarate : {0, PMC8_MINSLEWRATE - 2, PMC8_MAX_MOVE_MOTOR_RATE},
                 decrate : {0, PMC8_MINSLEWRATE - 2, PMC8_MAX_MOVE_MOTOR_RATE}]

\* abort_pmc8(fd)
abort_pmc8 ==
    /\ Returns("abort_pmc8")
    /\ LET a == abort_pmc8_frames(args.fails)
       IN  /\ wire' = a.wire
           /\ rc' = a.rc
           /\ ret' = [rarate  |-> RateAfter("PMC8_RA_AXIS", args.rarate, a.wire),
                      decrate |-> RateAfter("PMC8_DEC_AXIS", args.decrate, a.wire)]

NextAbort == abort_pmc8

SpecAbort == InitAbort /\ [][NextAbort]_vars

\* C38: abort_pmc8 issues the zero-rate exchange of the Dec axis even when
\* that of the RA axis failed: every axis whose own exchanges are delivered
\* is at rate 0 afterwards, and the call succeeds only if both were stopped.
C38_AbortStopsBothAxes ==
    (pc = "done" /\ lastOp = "abort_pmc8") =>
        /\ AxisFails("PMC8_RA_AXIS", args.fails) = {} => ret.rarate = 0
        /\ AxisFails("PMC8_DEC_AXIS", args.fails) = {} => ret.decrate = 0
        /\ InWire(wire, {SetDirectionFrame("PMC8_DEC_AXIS", "1")})
        /\ rc = (args.fails = {})

-----------------------------------------------------------------------------
\* C39: an updateTime that fails on one of its three exchanges (local time,
\* calendar date, UTC offset) returns failure, leaves the time-set flag as it
\* was, does not run the mount initialisation, and sends nothing after the
\* failed exchange.
C39_FailedUpdateTime ==
    [][(lastOp' = "updateTime" /\ ~rc') =>
           /\ timeUpdated' = timeUpdated
           /\ mountInitialized' = mountInitialized
           /\ mountParked' = mountParked
           /\ TrackState' = TrackState
           /\ wire' \in {<<":SL">>, <<":SL", ":SC">>, <<":SL", ":SC", ":SG">>}]_vars

\* updateTime failed on the calendar date with the location already set and
\* the time never set
C39_Witness ==
    /\ lastOp = "updateTime" /\ ~rc
    /\ wire = <<":SL", ":SC">>
    /\ locationUpdated /\ ~timeUpdated /\ ~mountInitialized

-----------------------------------------------------------------------------
(* SpecLive: the driver after a Goto or a Park that succeeded, polled by   *)
(* the timer.  args is the mount: the position it reports and the number   *)
(* of times that position still changes.  Every read of a poll succeeds    *)
(* and returns the position of the mount; :KA# may be refused.             *)

MountStates ==
    [ra : Coords, de : Coords, az : Coords, al : Coords, left : 0..MaxMoves]

\* the members after Goto (TrackState = SCOPE_SLEWING, lastRA/lastDE the
\* target) or after Park (TrackState = SCOPE_PARKING, lastAZ/lastAL the park
\* position) on a connected and initialised mount
InitLive ==
    /\ pc = "live"
    /\ HexIdle
    /\ CoordIdle
    /\ connected = TRUE
    /\ TrackState \in {SCOPE_SLEWING, SCOPE_PARKING}
    /\ prevState = SCOPE_TRACKING
    /\ EqNP_s = IPS_BUSY
    /\ timeUpdated = TRUE /\ locationUpdated = TRUE /\ locThisSession = TRUE
    /\ mountInitialized = TRUE /\ mountParked = FALSE
    /\ motionCommanded = TRUE /\ motionSince = TRUE
    /\ firmwareVersion = MCV_T
    /\ trackMode = TRACK_SIDEREAL
    /\ lastRA \in Coords /\ lastDE \in Coords
    /\ lastAZ \in Coords /\ lastAL \in Coords
    /\ wire = IF TrackState = SCOPE_SLEWING THEN <<":Sr", ":Sd", ":MS#">> ELSE ParkPlan
    /\ lastOp = IF TrackState = SCOPE_SLEWING THEN "Goto" ELSE "Park"
    /\ rc = TRUE /\ polls = 0
    /\ initRA = 0 /\ initDEC = 0 /\ guideSpeed = 0
    /\ failing = {} /\ versionString = <<>>
    /\ jog = <<>>
    /\ ret = <<>>
    /\ args \in MountStates

\* the mount reports another position
MountMoves ==
    /\ pc = "live"
    /\ args.left > 0
    /\ \E m \in MountStates :
          /\ m.left = args.left - 1
          /\ <<m.ra, m.de, m.az, m.al>> # <<args.ra, args.de, args.az, args.al>>
          /\ args' = m
    /\ UNCHANGED <<pc, hexVars, coordVars, apVars, initRA, initDEC, guideSpeed,
                   failing, versionString, jog, ret>>

\* ReadScopeStatus() called by the timer: the reads succeed and return the
\* position of the mount; only setAPPark may fail
TimerHit ==
    /\ pc = "live"
    /\ ReadScopeStatus
    /\ TrackState = SCOPE_SLEWING => (rc' /\ lastRA' = args.ra /\ lastDE' = args.de)
    /\ TrackState = SCOPE_PARKING =>
          \/ rc' /\ lastAZ' = args.az /\ lastAL' = args.al
          \/ /\ ~rc'
             /\ wire'[Len(wire')] = ":KA#"
             /\ PositionSettled(lastAZ, lastAL, args.az, args.al)

\* a poll in which every exchange is accepted
TimerHitAccepted == TimerHit /\ rc'

NextLive == TimerHit \/ MountMoves

SpecLive == InitLive /\ [][NextLive]_vars /\ WF_vars(TimerHitAccepted)

\* C40: when every poll succeeds and the position the mount reports stops
\* changing, a driver in SLEWING eventually reaches TRACKING, and a driver in
\* PARKING eventually sends :KA# and reaches PARKED once :KA# is accepted.
C40_CompletionDetected ==
    /\ (TrackState = SCOPE_SLEWING) ~> (TrackState = SCOPE_TRACKING)
    /\ (TrackState = SCOPE_PARKING) ~>
           (TrackState = SCOPE_PARKED /\ \E i \in DOMAIN wire : wire[i] = ":KA#")

\* a poll taken after the mount stopped moving completed the park
C40_Witness ==
    /\ pc = "live"
    /\ TrackState = SCOPE_PARKED /\ prevState = SCOPE_PARKING
    /\ lastOp = "ReadScopeStatus" /\ rc
    /\ \E i \in DOMAIN wire : wire[i] = ":KA#"
    /\ args.left = 0

=============================================================================
